---- MODULE Spec2Model ----
(***************************************************************************)
(* blockchainpype: the protocol aggregators (DEX router, money market,     *)
(* betting market) with their name -> strategy registry, and the Uniswap   *)
(* V2 constant-product pricing of the V2 strategy.                         *)
(*                                                                         *)
(* Python values are encoded as follows.                                   *)
(*   - `x | None` is a sequence: <<>> is None, <<v>> is the value v.       *)
(*   - a dict is the sequence of its keys in insertion order; a strategy   *)
(*     object is identified with the key it is registered under.           *)
(*   - an exception is a pair <<kind, detail>>; the ValueErrors raised by  *)
(*     the aggregators carry their message as the kind.                    *)
(*   - a strategy method is an awaited call into a collaborator: what it   *)
(*     returns or raises is an input of the action that models the handler *)
(*     (an outcome record [raised, value]).                                *)
(***************************************************************************)
EXTENDS Integers, Sequences, FiniteSets, TLC

\* Bounds of the model.
MaxProtocols == 2
MaxAmount == 2
MaxPositions == 1
MaxReserve == 5
MaxV2Amount == 6
MaxDecimals == 1
MaxQuote == 2

VARIABLES
    kind,                  \* the aggregator class of the object
    _protocol_strategies,  \* self._protocol_strategies: keys in insertion order
    configuration,         \* self._configuration: the defaults the handlers read
    op,                    \* the public operation called last, with its arguments
    result,                \* what that operation returned or raised
    calls,                 \* the strategy methods awaited during that operation, in order
    held,                  \* the SwapRoute the caller keeps from a quote, as it is now
    v2,                    \* a UniswapV2 strategy at work: its inputs and what it computed
    v3,                    \* a UniswapV3 strategy at work: what the chain answers and its quote
    self,                  \* a strategy object: what it has initialised, and its last call
    model,                 \* a model value (SwapHop, BettingMarket): its fields as they are now
    abi,                   \* an ABI source at work: what it is asked, its HTTP session, its result
    tasks                  \* concurrent calls on one Uniswap strategy and its contracts

vars == <<kind, _protocol_strategies, configuration, op, result, calls, held, v2, v3, self, model, abi, tasks>>

----------------------------------------------------------------------------
\* Values

None == <<>>
Some(v) == <<v>>

Kinds == {"dex", "money_market", "betting_market"}

\* Keys a configuration registers strategies under, per aggregator class.
ProtocolNames(k) ==
    CASE k = "dex" -> {"uniswap_v2", "uniswap_v3"}
      [] k = "money_market" -> {"Aave V3", "Compound V3"}
      [] OTHER -> {"Polymarket 1", "Polymarket 2"}

\* What a caller may pass as `protocol`: None, a registered or unregistered
\* key, a name no configuration uses, or the empty string.
ProtocolArgs(k) == {None} \cup {Some(n) : n \in ProtocolNames(k) \cup {"Unknown", ""}}

Assets == {"USDC", "WETH"}
Amounts == 1..MaxAmount

EXACT_INPUT == "exact_input"
EXACT_OUTPUT == "exact_output"
SwapModes == {EXACT_INPUT, EXACT_OUTPUT}

\* Exceptions a strategy's awaited call can raise (upstream failures).
StrategyErrors == {<<"TimeoutError", "rpc">>, <<"ValueError", "No pair found">>}

\* Injective sequences over S of length at most n: the key orders of a dict.
KeyOrders(S, n) ==
    UNION {{q \in [1..m -> S] : \A i, j \in 1..m : i # j => q[i] # q[j]} : m \in 0..n}

Keys == {_protocol_strategies[i] : i \in 1..Len(_protocol_strategies)}

\* Python truthiness of a `str | None`: None and "" are both falsy.
Truthy(protocol) == protocol # None /\ protocol[1] # ""

\* Outcomes of one awaited strategy call that can return a value of V.
Outcomes(V) ==
    {[raised |-> Some(e), value |-> None] : e \in StrategyErrors}
        \cup {[raised |-> None, value |-> Some(v)] : v \in V}

\* Results of a handler: a returned value (tagged with the strategy whose value
\* it is) or a raised exception (tagged with the strategy that raised it, None
\* when the aggregator itself raised).
Return(v, strategy) == [ok |-> TRUE, val |-> Some(v), err |-> None, source |-> Some(strategy)]
Raise(e) == [ok |-> FALSE, val |-> None, err |-> Some(e), source |-> None]
RaiseFrom(e, strategy) == [ok |-> FALSE, val |-> None, err |-> Some(e), source |-> Some(strategy)]

NoResult == [ok |-> TRUE, val |-> None, err |-> None, source |-> None]

UnsupportedProtocol(name) == <<"Unsupported protocol", name>>
NoProtocolsConfigured == <<"No protocols configured", "">>
NoValidRouteFound == <<"No valid route found", "">>
NoReservesFound == <<"No reserves found for pair", "">>

\* One awaited strategy method in the log of an operation.
Call(strategy, method, args, outcome) ==
    [strategy |-> strategy, method |-> method, args |-> args,
     raised |-> outcome.raised, returned |-> outcome.value]

\* `await strategy.method(*args)` as the last statement of a handler
\* (`return await ...`): the outcome reaches the caller as it is.
AwaitStrategy_retry(strategy, method, args, outcome) ==
    [result |-> IF outcome.raised # None
                THEN RaiseFrom(outcome.raised[1], strategy)
                ELSE Return(outcome.value[1], strategy),
     calls |-> IF outcome.raised # None
               THEN <<Call(strategy, method, args, outcome), Call(strategy, method, args, outcome)>>
               ELSE <<Call(strategy, method, args, outcome)>>]

AwaitStrategy(strategy, method, args, outcome) ==
    [result |-> IF outcome.raised # None
                THEN RaiseFrom(outcome.raised[1], strategy)
                ELSE Return(outcome.value[1], strategy),
     calls |-> <<Call(strategy, method, args, outcome)>>]

----------------------------------------------------------------------------
\* DEX aggregator (dapps/router/dex.py, evm/dapp/uniswap/dex.py)

\* The protocol identifier a Uniswap strategy writes into the routes it
\* builds: V2 its own name, V3 its name followed by the winning fee tier.
RouteProtocols(strategy) ==
    IF strategy = "uniswap_v3"
    THEN {"uniswap_v3_500", "uniswap_v3_3000"}
    ELSE {strategy}

\* The routes a strategy's quote_swap can return for a request: the request's
\* assets and mode, the requested amount as input amount of an exact-input
\* quote, and quoted amounts otherwise.
SwapRoutes(strategy, input_asset, output_asset, amount, mode) ==
    [input_asset : {input_asset},
     input_amount : IF mode = EXACT_INPUT THEN {amount} ELSE Amounts,
     output_asset : {output_asset},
     output_amount : Amounts,
     mode : {mode},
     protocol : RouteProtocols(strategy)]

\* One outcome per registered strategy, by position in the registry: what the
\* strategy's method returns or raises if the handler awaits it. OutcomesOf
\* maps each key to the outcomes its strategy can give.
Responses(OutcomesOf) ==
    {f \in [1..Len(_protocol_strategies) -> UNION {OutcomesOf[s] : s \in Keys}] :
        \A i \in 1..Len(_protocol_strategies) : f[i] \in OutcomesOf[_protocol_strategies[i]]}

\* An unsigned transaction as a strategy's build_* method returns it.
Transactions(method) == {[unsigned_tx |-> method]}

TxResponses(method) == Responses([s \in Keys |-> Outcomes(Transactions(method))])

Positions == 1..Len(_protocol_strategies)

Index(name) == CHOOSE i \in Positions : _protocol_strategies[i] = name

\* dex.py:102, the replacement test of the best-quote loop.
IsBetterQuote_Geq(quote, best_quote) ==
    best_quote = None \/ quote.output_amount >= best_quote[1].output_amount

IsBetterQuote(quote, best_quote) ==
    best_quote = None \/ quote.output_amount > best_quote[1].output_amount

\* dex.py:99-107, the loop over self._protocol_strategies.values() from
\* position i on, with the best quote so far (and the strategy it came from)
\* and the calls made so far.
RECURSIVE BestQuoteLoop(_, _, _, _, _, _)
BestQuoteLoop(i, best_quote, source, log, args, resp) ==
    IF i > Len(_protocol_strategies)
    THEN [result |-> IF best_quote = None
                     THEN Raise(NoValidRouteFound)
                     ELSE Return(best_quote[1], source[1]),
          calls |-> log]
    ELSE LET strategy == _protocol_strategies[i]
             outcome == resp[i]
             log2 == Append(log, Call(strategy, "quote_swap", args, outcome))
         IN IF outcome.raised # None
            THEN [result |-> RaiseFrom(outcome.raised[1], strategy), calls |-> log2]
            ELSE IF IsBetterQuote(outcome.value[1], best_quote)
                 THEN BestQuoteLoop(i + 1, outcome.value, Some(strategy), log2, args, resp)
                 ELSE BestQuoteLoop(i + 1, best_quote, source, log2, args, resp)

\* DecentralizedExchange.quote_swap
DecentralizedExchange_quote_swap(input_asset, output_asset, amount, mode, protocol, resp) ==
    LET args == <<input_asset, output_asset, amount, mode>>
    IN IF Truthy(protocol)
       THEN IF protocol[1] \notin Keys
            THEN [result |-> Raise(UnsupportedProtocol(protocol[1])), calls |-> <<>>]
            ELSE AwaitStrategy(protocol[1], "quote_swap", args, resp[Index(protocol[1])])
       ELSE BestQuoteLoop(1, None, None, <<>>, args, resp)

\* The outcomes the strategies give a quote request.
QuoteResponses(input_asset, output_asset, amount, mode) ==
    LET OutcomesOf == [s \in Keys |-> Outcomes(SwapRoutes(s, input_asset, output_asset, amount, mode))]
    IN Responses(OutcomesOf)

\* No operation is under observation and the caller holds no route.
Idle == op.name = "__init__" /\ held = None

\* The caller holds a route from an earlier quote and is about to use it.
Holding == kind = "dex" /\ op.name = "__init__" /\ held # None

QuoteSwap ==
    /\ kind = "dex" /\ Idle
    /\ \E input_asset \in Assets, output_asset \in Assets, amount \in Amounts,
          mode \in SwapModes, protocol \in ProtocolArgs("dex") :
         /\ input_asset # output_asset
         /\ \E resp \in QuoteResponses(input_asset, output_asset, amount, mode) :
              LET out == DecentralizedExchange_quote_swap(
                             input_asset, output_asset, amount, mode, protocol, resp)
              IN /\ op' = [name |-> "quote_swap", protocol |-> protocol,
                           args |-> <<input_asset, output_asset, amount, mode>>]
                 /\ result' = out.result
                 /\ calls' = out.calls
    /\ UNCHANGED <<kind, _protocol_strategies, configuration, held, v2, v3, self, model, abi, tasks>>

\* The last operation was a quote that returned a SwapRoute, which the caller
\* can hand on to update_quote or execute_swap.
RouteReturned ==
    /\ kind = "dex"
    /\ op.name \in {"quote_swap", "find_best_route"}
    /\ result.ok

\* DecentralizedExchange.update_quote: the amount of the request it re-issues.
update_quote_amount_swapped(quote) ==
    IF quote.mode = EXACT_INPUT THEN quote.output_amount ELSE quote.input_amount

update_quote_amount(quote) ==
    IF quote.mode = EXACT_INPUT THEN quote.input_amount ELSE quote.output_amount

\* DecentralizedExchange.update_quote
DecentralizedExchange_update_quote(quote, resp) ==
    DecentralizedExchange_quote_swap(
        quote.input_asset, quote.output_asset, update_quote_amount(quote), quote.mode,
        None, resp)

\* The route object after update_quote has run on it.
update_quote_route_after(quote, out) == quote

UpdateQuote ==
    /\ Holding
    /\ LET quote == held[1]
       IN \E amount \in Amounts :
            /\ amount = update_quote_amount(quote)
            /\ \E resp \in QuoteResponses(quote.input_asset, quote.output_asset,
                                          amount, quote.mode) :
                 LET out == DecentralizedExchange_update_quote(quote, resp)
                 IN /\ op' = [name |-> "update_quote", protocol |-> None, args |-> <<quote>>]
                    /\ result' = out.result
                    /\ calls' = out.calls
                    /\ held' = Some(update_quote_route_after(quote, out))
    /\ UNCHANGED <<kind, _protocol_strategies, configuration, v2, v3, self, model, abi, tasks>>

MaxHops == {1, 3}

\* UniswapDEX.find_best_route
UniswapDEX_find_best_route_unscoped(input_asset, output_asset, amount, mode, max_hops, protocol, resp) ==
    DecentralizedExchange_quote_swap(input_asset, output_asset, amount, mode, None, resp)

UniswapDEX_find_best_route(input_asset, output_asset, amount, mode, max_hops, protocol, resp) ==
    DecentralizedExchange_quote_swap(input_asset, output_asset, amount, mode, protocol, resp)

FindBestRoute ==
    /\ kind = "dex" /\ Idle
    /\ \E input_asset \in Assets, output_asset \in Assets, amount \in Amounts,
          mode \in SwapModes, max_hops \in MaxHops, protocol \in ProtocolArgs("dex") :
         /\ input_asset # output_asset
         /\ \E resp \in QuoteResponses(input_asset, output_asset, amount, mode) :
              LET out == UniswapDEX_find_best_route(
                             input_asset, output_asset, amount, mode, max_hops, protocol, resp)
              IN /\ op' = [name |-> "find_best_route", protocol |-> protocol,
                           args |-> <<input_asset, output_asset, amount, mode, max_hops>>]
                 /\ result' = out.result
                 /\ calls' = out.calls
    /\ UNCHANGED <<kind, _protocol_strategies, configuration, held, v2, v3, self, model, abi, tasks>>

Recipients == {None, Some("0xRecipient")}

\* How a Uniswap strategy binds the positional arguments of
\* build_swap_transaction(self, route, wallet, recipient=None).
build_swap_transaction_parameters(args) ==
    [route |-> args[1],
     wallet |-> IF Len(args) >= 2 THEN Some(args[2]) ELSE None,
     recipient |-> IF Len(args) >= 3 THEN args[3] ELSE None]

\* DecentralizedExchange.execute_swap
DecentralizedExchange_execute_swap(route, recipient, resp) ==
    LET protocol == route.protocol
    IN IF protocol \notin Keys
       THEN [result |-> Raise(UnsupportedProtocol(protocol)), calls |-> <<>>]
       ELSE AwaitStrategy(protocol, "build_swap_transaction", <<route, recipient>>,
                          resp[Index(protocol)])

ExecuteSwap ==
    /\ Holding
    /\ LET route == held[1]
       IN \E recipient \in Recipients :
          \E resp \in TxResponses("build_swap_transaction") :
            LET out == DecentralizedExchange_execute_swap(route, recipient, resp)
            IN /\ op' = [name |-> "execute_swap", protocol |-> Some(route.protocol),
                         args |-> <<route, recipient>>]
               /\ result' = out.result
               /\ calls' = out.calls
               /\ held' = Some(route)
    /\ UNCHANGED <<kind, _protocol_strategies, configuration, v2, v3, self, model, abi, tasks>>

\* The (reserve of asset_a, reserve of asset_b) pairs a strategy can report.
ReservePairs == Amounts \X Amounts

\* dex.py:165-170, the loop over self._protocol_strategies.values() from
\* position i on: the first strategy that returns ends it, one that raises
\* is skipped.
ReservesLoop_NoSkip(i, log, args, resp) ==
    IF i > Len(_protocol_strategies)
    THEN [result |-> Raise(NoReservesFound), calls |-> log]
    ELSE LET strategy == _protocol_strategies[i]
             outcome == resp[i]
             log2 == Append(log, Call(strategy, "get_reserves", args, outcome))
         IN IF outcome.raised = None
            THEN [result |-> Return(outcome.value[1], strategy), calls |-> log2]
            ELSE [result |-> RaiseFrom(outcome.raised[1], strategy), calls |-> log2]

RECURSIVE ReservesLoop(_, _, _, _)
ReservesLoop(i, log, args, resp) ==
    IF i > Len(_protocol_strategies)
    THEN [result |-> Raise(NoReservesFound), calls |-> log]
    ELSE LET strategy == _protocol_strategies[i]
             outcome == resp[i]
             log2 == Append(log, Call(strategy, "get_reserves", args, outcome))
         IN IF outcome.raised = None
            THEN [result |-> Return(outcome.value[1], strategy), calls |-> log2]
            ELSE ReservesLoop(i + 1, log2, args, resp)

\* DecentralizedExchange.get_reserves
DecentralizedExchange_get_reserves(asset_a, asset_b, protocol, resp) ==
    LET args == <<asset_a, asset_b>>
    IN IF Truthy(protocol)
       THEN IF protocol[1] \notin Keys
            THEN [result |-> Raise(UnsupportedProtocol(protocol[1])), calls |-> <<>>]
            ELSE AwaitStrategy(protocol[1], "get_reserves", args, resp[Index(protocol[1])])
       ELSE ReservesLoop(1, <<>>, args, resp)

GetReserves ==
    /\ kind = "dex" /\ Idle
    /\ \E asset_a \in Assets, asset_b \in Assets, protocol \in ProtocolArgs("dex") :
         /\ asset_a # asset_b
         /\ LET OutcomesOf == [s \in Keys |-> Outcomes(ReservePairs)]
            IN \E resp \in Responses(OutcomesOf) :
                 LET out == DecentralizedExchange_get_reserves(asset_a, asset_b, protocol, resp)
                 IN /\ op' = [name |-> "get_reserves", protocol |-> protocol,
                              args |-> <<asset_a, asset_b>>]
                    /\ result' = out.result
                    /\ calls' = out.calls
    /\ UNCHANGED <<kind, _protocol_strategies, configuration, held, v2, v3, self, model, abi, tasks>>

----------------------------------------------------------------------------
\* Money market aggregator (dapps/money_market/money_market.py)

User == "0xUser"

\* MoneyMarket._get_protocol_implementation: the strategy, or the ValueError.
MoneyMarket_get_protocol_implementation(protocol) ==
    IF Truthy(protocol)
    THEN IF protocol[1] \notin Keys
         THEN Raise(UnsupportedProtocol(protocol[1]))
         ELSE Return(protocol[1], protocol[1])
    ELSE IF _protocol_strategies = <<>>
         THEN Raise(NoProtocolsConfigured)
         ELSE Return(_protocol_strategies[1], _protocol_strategies[1])

\* `protocol_impl = self._get_protocol_implementation(protocol)` followed by
\* `return await protocol_impl.method(*args)`.
MoneyMarket_dispatch(protocol, method, args, resp) ==
    LET protocol_impl == MoneyMarket_get_protocol_implementation(protocol)
    IN IF ~protocol_impl.ok
       THEN [result |-> protocol_impl, calls |-> <<>>]
       ELSE AwaitStrategy(protocol_impl.val[1], method, args,
                          resp[Index(protocol_impl.val[1])])

\* The resolution written out in get_market_data and get_user_account_data.
MoneyMarket_first_available(protocol, method, args, resp) ==
    IF Truthy(protocol)
    THEN IF protocol[1] \notin Keys
         THEN [result |-> Raise(UnsupportedProtocol(protocol[1])), calls |-> <<>>]
         ELSE AwaitStrategy(protocol[1], method, args, resp[Index(protocol[1])])
    ELSE IF _protocol_strategies = <<>>
         THEN [result |-> Raise(NoProtocolsConfigured), calls |-> <<>>]
         ELSE AwaitStrategy(_protocol_strategies[1], method, args, resp[1])

\* MoneyMarket.get_market_data
MoneyMarket_get_market_data(asset, protocol, resp) ==
    MoneyMarket_first_available(protocol, "get_market_data", <<asset>>, resp)

\* MoneyMarket.get_user_account_data
MoneyMarket_get_user_account_data(user_address, protocol, resp) ==
    MoneyMarket_first_available(protocol, "get_user_account_data", <<user_address>>, resp)

\* The loop of an unscoped position read from position i on: every strategy
\* is awaited in turn and its list appended; a raise leaves the handler.
RECURSIVE UnionLoop_Overwrite(_, _, _, _, _, _)
UnionLoop_Overwrite(i, all_positions, log, method, args, resp) ==
    IF i > Len(_protocol_strategies)
    THEN [result |-> [ok |-> TRUE, val |-> Some(all_positions), err |-> None, source |-> None],
          calls |-> log]
    ELSE LET strategy == _protocol_strategies[i]
             outcome == resp[i]
             log2 == Append(log, Call(strategy, method, args, outcome))
         IN IF outcome.raised # None
            THEN [result |-> RaiseFrom(outcome.raised[1], strategy), calls |-> log2]
            ELSE UnionLoop_Overwrite(i + 1, outcome.value[1], log2, method, args, resp)

RECURSIVE UnionLoop(_, _, _, _, _, _)
UnionLoop(i, all_positions, log, method, args, resp) ==
    IF i > Len(_protocol_strategies)
    THEN [result |-> [ok |-> TRUE, val |-> Some(all_positions), err |-> None, source |-> None],
          calls |-> log]
    ELSE LET strategy == _protocol_strategies[i]
             outcome == resp[i]
             log2 == Append(log, Call(strategy, method, args, outcome))
         IN IF outcome.raised # None
            THEN [result |-> RaiseFrom(outcome.raised[1], strategy), calls |-> log2]
            ELSE UnionLoop(i + 1, all_positions \o outcome.value[1], log2, method, args, resp)

\* MoneyMarket.get_lending_positions and get_borrowing_positions
MoneyMarket_get_positions(method, user_address, protocol, resp) ==
    IF Truthy(protocol)
    THEN IF protocol[1] \notin Keys
         THEN [result |-> Raise(UnsupportedProtocol(protocol[1])), calls |-> <<>>]
         ELSE AwaitStrategy(protocol[1], method, <<user_address>>, resp[Index(protocol[1])])
    ELSE UnionLoop(1, <<>>, <<>>, method, <<user_address>>, resp)

MoneyMarket_get_lending_positions(user_address, protocol, resp) ==
    MoneyMarket_get_positions("get_lending_positions", user_address, protocol, resp)

MoneyMarket_get_borrowing_positions(user_address, protocol, resp) ==
    MoneyMarket_get_positions("get_borrowing_positions", user_address, protocol, resp)

\* MoneyMarket.supply
MoneyMarket_supply(asset, amount, user_address, enable_as_collateral, protocol, resp) ==
    LET enable == IF enable_as_collateral = None
                  THEN configuration.default_collateral_mode = "enabled"
                  ELSE enable_as_collateral[1]
    IN MoneyMarket_dispatch(protocol, "build_supply_transaction",
                            <<asset, amount, user_address, enable>>, resp)

\* MoneyMarket.withdraw
MoneyMarket_withdraw(asset, amount, user_address, protocol, resp) ==
    MoneyMarket_dispatch(protocol, "build_withdraw_transaction",
                         <<asset, amount, user_address>>, resp)

\* MoneyMarket.borrow
MoneyMarket_borrow(asset, amount, user_address, interest_rate_mode, protocol, resp) ==
    LET mode == IF interest_rate_mode = None
                THEN configuration.default_interest_rate_mode
                ELSE interest_rate_mode[1]
    IN MoneyMarket_dispatch(protocol, "build_borrow_transaction",
                            <<asset, amount, mode, user_address>>, resp)

\* MoneyMarket.repay
MoneyMarket_repay(asset, amount, user_address, interest_rate_mode, repay_all, protocol, resp) ==
    LET mode == IF interest_rate_mode = None
                THEN configuration.default_interest_rate_mode
                ELSE interest_rate_mode[1]
    IN MoneyMarket_dispatch(protocol, "build_repay_transaction",
                            <<asset, amount, mode, user_address, repay_all>>, resp)

\* MoneyMarket.set_collateral_mode
MoneyMarket_set_collateral_mode(asset, mode, user_address, protocol, resp) ==
    MoneyMarket_dispatch(protocol, "build_collateral_transaction",
                         <<asset, mode, user_address>>, resp)

\* MoneyMarket.liquidate
MoneyMarket_liquidate(collateral_asset, debt_asset, user_to_liquidate, debt_to_cover, receive_collateral, protocol, resp) ==
    MoneyMarket_dispatch(protocol, "build_liquidation_transaction",
                         <<collateral_asset, debt_asset, user_to_liquidate, debt_to_cover,
                           receive_collateral>>, resp)

InterestRateModes == {"stable", "variable"}
CollateralModes == {"enabled", "disabled"}

\* The position lists a strategy can return for the user.
PositionLists(strategy) ==
    UNION {[1..n -> [protocol : {strategy}, asset : Assets]] : n \in 0..MaxPositions}

Completes_registering(name, protocol, args, out) ==
    /\ op' = [name |-> name, protocol |-> protocol, args |-> args]
    /\ result' = out.result
    /\ calls' = out.calls
    /\ _protocol_strategies' = (IF Truthy(protocol) /\ protocol[1] \notin Keys
                                THEN Append(_protocol_strategies, protocol[1])
                                ELSE _protocol_strategies)
    /\ UNCHANGED <<kind, configuration, held, v2, v3, self, model, abi, tasks>>

\* An operation of the aggregator completes with outcome `out`.
Completes(name, protocol, args, out) ==
    /\ op' = [name |-> name, protocol |-> protocol, args |-> args]
    /\ result' = out.result
    /\ calls' = out.calls
    /\ UNCHANGED <<kind, _protocol_strategies, configuration, held, v2, v3, self, model, abi, tasks>>

GetMarketData ==
    /\ kind = "money_market" /\ Idle
    /\ \E asset \in Assets, protocol \in ProtocolArgs("money_market") :
       LET OutcomesOf == [s \in Keys |-> Outcomes({[market_data_of |-> asset, protocol |-> s]})]
       IN \E resp \in Responses(OutcomesOf) :
            Completes("get_market_data", protocol, <<asset>>,
                      MoneyMarket_get_market_data(asset, protocol, resp))

GetUserAccountData ==
    /\ kind = "money_market" /\ Idle
    /\ \E protocol \in ProtocolArgs("money_market") :
       LET OutcomesOf == [s \in Keys |-> Outcomes({[account_data_of |-> User, protocol |-> s]})]
       IN \E resp \in Responses(OutcomesOf) :
            Completes("get_user_account_data", protocol, <<User>>,
                      MoneyMarket_get_user_account_data(User, protocol, resp))

GetLendingPositions ==
    /\ kind = "money_market" /\ Idle
    /\ \E protocol \in ProtocolArgs("money_market") :
       LET OutcomesOf == [s \in Keys |-> Outcomes(PositionLists(s))]
       IN \E resp \in Responses(OutcomesOf) :
            Completes("get_lending_positions", protocol, <<User>>,
                      MoneyMarket_get_lending_positions(User, protocol, resp))

GetBorrowingPositions ==
    /\ kind = "money_market" /\ Idle
    /\ \E protocol \in ProtocolArgs("money_market") :
       LET OutcomesOf == [s \in Keys |-> Outcomes(PositionLists(s))]
       IN \E resp \in Responses(OutcomesOf) :
            Completes("get_borrowing_positions", protocol, <<User>>,
                      MoneyMarket_get_borrowing_positions(User, protocol, resp))

Supply ==
    /\ kind = "money_market" /\ Idle
    /\ \E asset \in Assets, amount \in Amounts, protocol \in ProtocolArgs("money_market"),
          enable_as_collateral \in {None, Some(TRUE), Some(FALSE)} :
       \E resp \in TxResponses("build_supply_transaction") :
            Completes("supply", protocol, <<asset, amount, User, enable_as_collateral>>,
                      MoneyMarket_supply(asset, amount, User, enable_as_collateral, protocol, resp))

Withdraw ==
    /\ kind = "money_market" /\ Idle
    /\ \E asset \in Assets, amount \in Amounts, protocol \in ProtocolArgs("money_market") :
       \E resp \in TxResponses("build_withdraw_transaction") :
            Completes("withdraw", protocol, <<asset, amount, User>>,
                      MoneyMarket_withdraw(asset, amount, User, protocol, resp))

Borrow ==
    /\ kind = "money_market" /\ Idle
    /\ \E asset \in Assets, amount \in Amounts, protocol \in ProtocolArgs("money_market"),
          interest_rate_mode \in {None} \cup {Some(m) : m \in InterestRateModes} :
       \E resp \in TxResponses("build_borrow_transaction") :
            Completes("borrow", protocol, <<asset, amount, User, interest_rate_mode>>,
                      MoneyMarket_borrow(asset, amount, User, interest_rate_mode, protocol, resp))

Repay ==
    /\ kind = "money_market" /\ Idle
    /\ \E asset \in Assets, amount \in Amounts, protocol \in ProtocolArgs("money_market"),
          interest_rate_mode \in {None} \cup {Some(m) : m \in InterestRateModes},
          repay_all \in BOOLEAN :
       \E resp \in TxResponses("build_repay_transaction") :
            Completes("repay", protocol, <<asset, amount, User, interest_rate_mode, repay_all>>,
                      MoneyMarket_repay(asset, amount, User, interest_rate_mode, repay_all,
                                        protocol, resp))

SetCollateralMode ==
    /\ kind = "money_market" /\ Idle
    /\ \E asset \in Assets, mode \in CollateralModes, protocol \in ProtocolArgs("money_market") :
       \E resp \in TxResponses("build_collateral_transaction") :
            Completes("set_collateral_mode", protocol, <<asset, mode, User>>,
                      MoneyMarket_set_collateral_mode(asset, mode, User, protocol, resp))

Liquidate ==
    /\ kind = "money_market" /\ Idle
    /\ \E collateral_asset \in Assets, debt_asset \in Assets, debt_to_cover \in Amounts,
          receive_collateral \in BOOLEAN, protocol \in ProtocolArgs("money_market") :
       /\ collateral_asset # debt_asset
       /\ \E resp \in TxResponses("build_liquidation_transaction") :
            Completes("liquidate", protocol,
                      <<collateral_asset, debt_asset, User, debt_to_cover, receive_collateral>>,
                      MoneyMarket_liquidate(collateral_asset, debt_asset, User, debt_to_cover,
                                            receive_collateral, protocol, resp))

----------------------------------------------------------------------------
\* Betting market aggregator (dapps/betting_market/betting_market.py)
\*
\* A price read from a strategy is a Decimal with two places, held as its
\* number of hundredths; the slippage tolerance is held as a number of
\* hundredths too. A price handed to a transaction builder is held as its
\* number of ten-thousandths, so that price * (1 +/- tolerance) is exact.

MarketId == "market-1"
OutcomeTokenId == "token-yes"

\* Outcome-token prices a strategy can report, in hundredths.
Prices == {35, 60}

\* Explicit max_price / min_price arguments, in ten-thousandths.
PriceLimits == {5940, 6060}

\* BettingMarket._get_protocol_implementation: the strategy, or the ValueError.
BettingMarket_get_protocol_implementation(protocol) ==
    IF Truthy(protocol)
    THEN IF protocol[1] \notin Keys
         THEN Raise(UnsupportedProtocol(protocol[1]))
         ELSE Return(protocol[1], protocol[1])
    ELSE IF _protocol_strategies = <<>>
         THEN Raise(NoProtocolsConfigured)
         ELSE Return(_protocol_strategies[1], _protocol_strategies[1])

\* `protocol_impl = self._get_protocol_implementation(protocol)` followed by
\* `return await protocol_impl.method(*args)`.
BettingMarket_dispatch(protocol, method, args, resp) ==
    LET protocol_impl == BettingMarket_get_protocol_implementation(protocol)
    IN IF ~protocol_impl.ok
       THEN [result |-> protocol_impl, calls |-> <<>>]
       ELSE AwaitStrategy(protocol_impl.val[1], method, args,
                          resp[Index(protocol_impl.val[1])])

\* BettingMarket.get_market
BettingMarket_get_market(market_id, protocol, resp) ==
    BettingMarket_dispatch(protocol, "get_market", <<market_id>>, resp)

\* BettingMarket.get_markets and get_user_positions: a named protocol is
\* resolved (`if protocol:` guards the call, so the name is never None or "");
\* otherwise every strategy is read and the lists are joined.
BettingMarket_get_list(method, args, protocol, resp) ==
    IF Truthy(protocol)
    THEN BettingMarket_dispatch(protocol, method, args, resp)
    ELSE UnionLoop(1, <<>>, <<>>, method, args, resp)

BettingMarket_get_markets(category, status, limit, offset, protocol, resp) ==
    BettingMarket_get_list("get_markets", <<category, status, limit, offset>>, protocol, resp)

BettingMarket_get_user_positions(user_address, market_id, protocol, resp) ==
    BettingMarket_get_list("get_user_positions", <<user_address, market_id>>, protocol, resp)

\* BettingMarket.get_outcome_token_price
BettingMarket_get_outcome_token_price(market_id, outcome_token_id, protocol, resp) ==
    BettingMarket_dispatch(protocol, "get_outcome_token_price",
                           <<market_id, outcome_token_id>>, resp)

\* current_price * (1 + tolerance) and current_price * (1 - tolerance), in
\* ten-thousandths, from a price and a tolerance in hundredths.
default_max_price_additive(current_price, tolerance) == current_price * 100 + tolerance

default_max_price(current_price, tolerance) == current_price * (100 + tolerance)
default_min_price(current_price, tolerance) == current_price * (100 - tolerance)

\* betting_market.py:222-224 and 255-257: the protocol the price read is
\* given is the caller's.
price_read_protocol_dropped(protocol) == None

price_read_protocol(protocol) == protocol

\* The price read of a trade without a price limit: `await
\* self.get_outcome_token_price(market_id, outcome_token_id, protocol)`; with
\* a limit given nothing is read.
BettingMarket_read_price(market_id, outcome_token_id, price_limit, protocol, price_resp) ==
    IF price_limit = None
    THEN BettingMarket_get_outcome_token_price(market_id, outcome_token_id, price_read_protocol(protocol), price_resp)
    ELSE [result |-> NoResult, calls |-> <<>>]

\* BettingMarket.buy_outcome_tokens: a raise of the price read leaves the
\* handler; otherwise the protocol is resolved and the builder awaited.
BettingMarket_buy_outcome_tokens(market_id, outcome_token_id, amount, user_address, max_price, protocol, price_resp, build_resp) ==
    LET read == BettingMarket_read_price(market_id, outcome_token_id, max_price, protocol, price_resp)
    IN IF ~read.result.ok
       THEN read
       ELSE LET limit == IF max_price = None
                         THEN default_max_price(read.result.val[1], configuration.default_slippage_tolerance)
                         ELSE max_price[1]
                build == BettingMarket_dispatch(protocol, "build_buy_transaction",
                             <<market_id, outcome_token_id, amount, limit, user_address>>, build_resp)
            IN [result |-> build.result, calls |-> read.calls \o build.calls]

\* BettingMarket.sell_outcome_tokens
BettingMarket_sell_outcome_tokens(market_id, outcome_token_id, shares, user_address, min_price, protocol, price_resp, build_resp) ==
    LET read == BettingMarket_read_price(market_id, outcome_token_id, min_price, protocol, price_resp)
    IN IF ~read.result.ok
       THEN read
       ELSE LET limit == IF min_price = None
                         THEN default_min_price(read.result.val[1], configuration.default_slippage_tolerance)
                         ELSE min_price[1]
                build == BettingMarket_dispatch(protocol, "build_sell_transaction",
                             <<market_id, outcome_token_id, shares, limit, user_address>>, build_resp)
            IN [result |-> build.result, calls |-> read.calls \o build.calls]

\* BettingMarket.redeem_winnings
BettingMarket_redeem_winnings(market_id, user_address, protocol, resp) ==
    BettingMarket_dispatch(protocol, "build_redeem_transaction",
                           <<market_id, user_address>>, resp)

\* BettingMarket.get_buy_quote
BettingMarket_get_buy_quote(market_id, outcome_token_id, amount, protocol, resp) ==
    BettingMarket_dispatch(protocol, "calculate_buy_quote",
                           <<market_id, outcome_token_id, amount>>, resp)

\* BettingMarket.get_sell_quote
BettingMarket_get_sell_quote(market_id, outcome_token_id, shares, protocol, resp) ==
    BettingMarket_dispatch(protocol, "calculate_sell_quote",
                           <<market_id, outcome_token_id, shares>>, resp)

\* The market and position lists a strategy can return.
MarketLists(strategy) ==
    UNION {[1..n -> [protocol : {strategy}, market_id : {MarketId, "market-2"}]] :
              n \in 0..MaxPositions}

BettingPositionLists(strategy) ==
    UNION {[1..n -> [protocol : {strategy}, token_id : {OutcomeTokenId, "token-no"}]] :
              n \in 0..MaxPositions}

PriceResponses ==
    Responses([s \in Keys |-> Outcomes(Prices)])

GetMarket ==
    /\ kind = "betting_market" /\ Idle
    /\ \E protocol \in ProtocolArgs("betting_market") :
       LET OutcomesOf == [s \in Keys |-> Outcomes({[market_id |-> MarketId, protocol |-> s]})]
       IN \E resp \in Responses(OutcomesOf) :
            Completes("get_market", protocol, <<MarketId>>,
                      BettingMarket_get_market(MarketId, protocol, resp))

GetMarkets ==
    /\ kind = "betting_market" /\ Idle
    /\ \E protocol \in ProtocolArgs("betting_market"), status \in {None, Some("active")} :
       LET OutcomesOf == [s \in Keys |-> Outcomes(MarketLists(s))]
       IN \E resp \in Responses(OutcomesOf) :
            Completes("get_markets", protocol, <<None, status, 100, 0>>,
                      BettingMarket_get_markets(None, status, 100, 0, protocol, resp))

GetUserPositions ==
    /\ kind = "betting_market" /\ Idle
    /\ \E protocol \in ProtocolArgs("betting_market"), market_id \in {None, Some(MarketId)} :
       LET OutcomesOf == [s \in Keys |-> Outcomes(BettingPositionLists(s))]
       IN \E resp \in Responses(OutcomesOf) :
            Completes("get_user_positions", protocol, <<User, market_id>>,
                      BettingMarket_get_user_positions(User, market_id, protocol, resp))

GetOutcomeTokenPrice ==
    /\ kind = "betting_market" /\ Idle
    /\ \E protocol \in ProtocolArgs("betting_market") :
       \E resp \in PriceResponses :
            Completes("get_outcome_token_price", protocol, <<MarketId, OutcomeTokenId>>,
                      BettingMarket_get_outcome_token_price(
                          MarketId, OutcomeTokenId, protocol, resp))

BuyOutcomeTokens ==
    /\ kind = "betting_market" /\ Idle
    /\ \E amount \in Amounts, protocol \in ProtocolArgs("betting_market"),
          max_price \in {None} \cup {Some(l) : l \in PriceLimits} :
       \E price_resp \in PriceResponses, build_resp \in TxResponses("build_buy_transaction") :
            Completes("buy_outcome_tokens", protocol,
                      <<MarketId, OutcomeTokenId, amount, User, max_price>>,
                      BettingMarket_buy_outcome_tokens(
                          MarketId, OutcomeTokenId, amount, User, max_price, protocol,
                          price_resp, build_resp))

SellOutcomeTokens ==
    /\ kind = "betting_market" /\ Idle
    /\ \E shares \in Amounts, protocol \in ProtocolArgs("betting_market"),
          min_price \in {None} \cup {Some(l) : l \in PriceLimits} :
       \E price_resp \in PriceResponses, build_resp \in TxResponses("build_sell_transaction") :
            Completes("sell_outcome_tokens", protocol,
                      <<MarketId, OutcomeTokenId, shares, User, min_price>>,
                      BettingMarket_sell_outcome_tokens(
                          MarketId, OutcomeTokenId, shares, User, min_price, protocol,
                          price_resp, build_resp))

RedeemWinnings ==
    /\ kind = "betting_market" /\ Idle
    /\ \E protocol \in ProtocolArgs("betting_market") :
       \E resp \in TxResponses("build_redeem_transaction") :
            Completes("redeem_winnings", protocol, <<MarketId, User>>,
                      BettingMarket_redeem_winnings(MarketId, User, protocol, resp))

\* (shares, total cost) and (payout, fee) pairs a strategy can quote.
QuotePairs == Amounts \X Amounts

GetBuyQuote ==
    /\ kind = "betting_market" /\ Idle
    /\ \E amount \in Amounts, protocol \in ProtocolArgs("betting_market") :
       LET OutcomesOf == [s \in Keys |-> Outcomes(QuotePairs)]
       IN \E resp \in Responses(OutcomesOf) :
            Completes("get_buy_quote", protocol, <<MarketId, OutcomeTokenId, amount>>,
                      BettingMarket_get_buy_quote(
                          MarketId, OutcomeTokenId, amount, protocol, resp))

GetSellQuote ==
    /\ kind = "betting_market" /\ Idle
    /\ \E shares \in Amounts, protocol \in ProtocolArgs("betting_market") :
       LET OutcomesOf == [s \in Keys |-> Outcomes(QuotePairs)]
       IN \E resp \in Responses(OutcomesOf) :
            Completes("get_sell_quote", protocol, <<MarketId, OutcomeTokenId, shares>>,
                      BettingMarket_get_sell_quote(
                          MarketId, OutcomeTokenId, shares, protocol, resp))

----------------------------------------------------------------------------
\* Uniswap V2 strategy (evm/dapp/uniswap/v2.py)
\*
\* A Decimal is held as its number of units of 10^-MaxDecimals (no asset has
\* more decimals than MaxDecimals, so every Decimal below is exact).

RECURSIVE Pow10(_)
Pow10(n) == IF n = 0 THEN 1 ELSE 10 * Pow10(n - 1)

Scale == Pow10(MaxDecimals)

\* Decimal(n) for an integer n.
Decimal(n) == n * Scale

\* int(d) for a Decimal d: truncation towards zero.
int(d) == IF d >= 0 THEN d \div Scale ELSE -((-d) \div Scale)

\* int(amount * (10**decimals)) for a Decimal amount.
to_raw(amount, decimals) == int(amount * Pow10(decimals))

\* Decimal(raw) / (10**decimals) for an integer raw.
to_decimal(raw, decimals) == raw * Pow10(MaxDecimals - decimals)

\* The fee factors of the V2 formulas (v2.py:369, 371, 384, 385).
FeeNumerator == 997
FeeDenominator == 1000

\* UniswapV2._get_amount_out: the denominator, and the result where the
\* denominator is not zero. `//` is floor division, as \div is.
_get_amount_out_denominator(amount_in, reserve_in, reserve_out) ==
    int(reserve_in) * FeeDenominator + amount_in * FeeNumerator

_get_amount_out_rounded_up(amount_in, reserve_in, reserve_out) ==
    ((amount_in * FeeNumerator * int(reserve_out))
        \div _get_amount_out_denominator(amount_in, reserve_in, reserve_out)) + 1

_get_amount_out(amount_in, reserve_in, reserve_out) ==
    (amount_in * FeeNumerator * int(reserve_out))
        \div _get_amount_out_denominator(amount_in, reserve_in, reserve_out)

\* UniswapV2._get_amount_in: the denominator, and the result where the
\* denominator is not zero.
_get_amount_in_denominator(amount_out, reserve_in, reserve_out) ==
    (int(reserve_out) - amount_out) * FeeNumerator

_get_amount_in_without_plus_one(amount_out, reserve_in, reserve_out) ==
    (int(reserve_in) * amount_out * FeeDenominator)
        \div _get_amount_in_denominator(amount_out, reserve_in, reserve_out)

_get_amount_in(amount_out, reserve_in, reserve_out) ==
    ((int(reserve_in) * amount_out * FeeDenominator)
        \div _get_amount_in_denominator(amount_out, reserve_in, reserve_out)) + 1

ZeroDivisionError == <<"ZeroDivisionError", "integer division or modulo by zero">>

Returned(v) == [raised |-> None, value |-> Some(v)]
Raised(e) == [raised |-> Some(e), value |-> None]
NoOutcome == [raised |-> None, value |-> None]

\* A call of one of the two formulas, as Python runs it.
call_get_amount_out(amount_in, reserve_in, reserve_out) ==
    IF _get_amount_out_denominator(amount_in, reserve_in, reserve_out) = 0
    THEN Raised(ZeroDivisionError)
    ELSE Returned(_get_amount_out(amount_in, reserve_in, reserve_out))

call_get_amount_in(amount_out, reserve_in, reserve_out) ==
    IF _get_amount_in_denominator(amount_out, reserve_in, reserve_out) = 0
    THEN Raised(ZeroDivisionError)
    ELSE Returned(_get_amount_in(amount_out, reserve_in, reserve_out))

\* UniswapV2.get_reserves, after the pair was found: the pair contract's
\* reserves converted to decimal units, in the order (asset_a, asset_b).
UniswapV2_get_reserves(pair, a_is_token0, decimals_a, decimals_b) ==
    IF a_is_token0
    THEN <<to_decimal(pair.reserve0, decimals_a), to_decimal(pair.reserve1, decimals_b)>>
    ELSE <<to_decimal(pair.reserve1, decimals_a), to_decimal(pair.reserve0, decimals_b)>>

\* SwapHop.validate_swap_hop and SwapRoute.validate_swap_route on the route
\* quote_swap builds (its assets differ, its mode is defined, it has one hop,
\* its amounts are not raw): the ValueError, or None.
validate_swap_hop(input_amount, output_amount) ==
    IF input_amount = 0 \/ output_amount = 0
    THEN Some(<<"ValueError", "Amounts must be greater than 0.">>)
    ELSE None

\* UniswapV2.quote_swap. `pair` is None when the factory knows no pair.
\* The result carries the integers the formula was evaluated on.
UniswapV2_quote_swap(amount, mode, pair, input_is_token0, decimals_in, decimals_out) ==
    IF pair = None
    THEN [outcome |-> Raised(<<"ValueError", "No pair found">>), formula |-> None]
    ELSE
    LET reserves == UniswapV2_get_reserves(pair[1], input_is_token0, decimals_in, decimals_out)
        reserve_a == reserves[1]
        reserve_b == reserves[2]
        given_raw == IF mode = EXACT_INPUT THEN to_raw(amount, decimals_in)
                                           ELSE to_raw(amount, decimals_out)
        computed == IF mode = EXACT_INPUT
                    THEN call_get_amount_out(given_raw, reserve_a, reserve_b)
                    ELSE call_get_amount_in(given_raw, reserve_a, reserve_b)
        formula == Some([amount |-> given_raw, reserve_in |-> int(reserve_a),
                         reserve_out |-> int(reserve_b)])
    IN IF computed.raised # None
       THEN [outcome |-> computed, formula |-> formula]
       ELSE LET input_amount == IF mode = EXACT_INPUT THEN amount
                                ELSE to_decimal(computed.value[1], decimals_in)
                output_amount == IF mode = EXACT_INPUT
                                 THEN to_decimal(computed.value[1], decimals_out)
                                 ELSE to_decimal(computed.value[1], decimals_in)
                invalid == validate_swap_hop(input_amount, output_amount)
            IN IF invalid # None
               THEN [outcome |-> Raised(invalid[1]), formula |-> formula]
               ELSE [outcome |-> Returned([input_amount |-> input_amount,
                                           output_amount |-> output_amount,
                                           mode |-> mode, protocol |-> "uniswap_v2"]),
                     formula |-> formula]

NoQuote == [mode |-> "", input_is_token0 |-> TRUE, pair |-> None,
            decimals_in |-> 0, decimals_out |-> 0,
            outcome |-> NoOutcome, formula |-> None]

V2Idle ==
    [step |-> "idle", amount |-> 0, reserve_in |-> 0, reserve_out |-> 0,
     first |-> NoOutcome, second |-> NoOutcome, quote |-> NoQuote]

\* The strategy before a call: an amount and the two reserves of a pair.
V2Start ==
    [step : {"start"}, amount : 1..MaxV2Amount,
     reserve_in : 0..MaxReserve, reserve_out : 0..MaxReserve,
     first : {NoOutcome}, second : {NoOutcome}, quote : {NoQuote}]

aggregator_unchanged == UNCHANGED <<kind, _protocol_strategies, configuration, op, result, calls, held>>

\* _get_amount_out(amount, reserve_in, reserve_out) on integer reserves
GetAmountOut ==
    /\ v2.step = "start"
    /\ v2' = [v2 EXCEPT !.step = "out",
                        !.first = call_get_amount_out(v2.amount, Decimal(v2.reserve_in), Decimal(v2.reserve_out))]
    /\ aggregator_unchanged
    /\ UNCHANGED <<v3, self, model, abi, tasks>>

\* _get_amount_in on the output _get_amount_out has just returned
GetAmountInOfOut ==
    /\ v2.step = "out" /\ v2.first.raised = None
    /\ v2' = [v2 EXCEPT !.step = "out_in",
                        !.second = call_get_amount_in(v2.first.value[1], Decimal(v2.reserve_in), Decimal(v2.reserve_out))]
    /\ aggregator_unchanged
    /\ UNCHANGED <<v3, self, model, abi, tasks>>

\* _get_amount_in(amount, reserve_in, reserve_out) on integer reserves
GetAmountIn ==
    /\ v2.step = "start"
    /\ v2' = [v2 EXCEPT !.step = "in",
                        !.first = call_get_amount_in(v2.amount, Decimal(v2.reserve_in), Decimal(v2.reserve_out))]
    /\ aggregator_unchanged
    /\ UNCHANGED <<v3, self, model, abi, tasks>>

\* _get_amount_out on the input _get_amount_in has just returned
GetAmountOutOfIn ==
    /\ v2.step = "in" /\ v2.first.raised = None
    /\ v2' = [v2 EXCEPT !.step = "in_out",
                        !.second = call_get_amount_out(v2.first.value[1], Decimal(v2.reserve_in), Decimal(v2.reserve_out))]
    /\ aggregator_unchanged
    /\ UNCHANGED <<v3, self, model, abi, tasks>>

\* quote_swap(input_asset, output_asset, amount, mode) on a pair whose raw
\* reserves are (reserve_in, reserve_out) for the input and the output asset;
\* the amount is a Decimal of v2.amount units of 10^-MaxDecimals.
V2QuoteSwap ==
    /\ v2.step = "start"
    /\ \E mode \in SwapModes, exists \in BOOLEAN, input_is_token0 \in BOOLEAN,
          decimals_in \in 0..MaxDecimals, decimals_out \in 0..MaxDecimals :
         LET pair == IF ~exists THEN None
                     ELSE IF input_is_token0
                          THEN Some([reserve0 |-> v2.reserve_in, reserve1 |-> v2.reserve_out])
                          ELSE Some([reserve0 |-> v2.reserve_out, reserve1 |-> v2.reserve_in])
             out == UniswapV2_quote_swap(v2.amount, mode, pair, input_is_token0, decimals_in, decimals_out)
         IN v2' = [v2 EXCEPT !.step = "quoted",
                             !.quote = [mode |-> mode, input_is_token0 |-> input_is_token0,
                                        pair |-> pair,
                                        decimals_in |-> decimals_in, decimals_out |-> decimals_out,
                                        outcome |-> out.outcome, formula |-> out.formula]]
    /\ aggregator_unchanged
    /\ UNCHANGED <<v3, self, model, abi, tasks>>

----------------------------------------------------------------------------
\* Uniswap V3 strategy (evm/dapp/uniswap/v3.py)

\* self.fee_tiers
fee_tiers == <<100, 500, 3000, 10000>>

\* What the chain answers for one fee tier: _get_pool raises, finds no pool
\* (an empty or the zero address) or finds one; for a pool the quoter call
\* raises (None) or returns a raw amount.
TierAnswers ==
    {[pool |-> "raises", quote |-> None], [pool |-> "none", quote |-> None]}
        \cup {[pool |-> "exists", quote |-> q] : q \in {None} \cup {Some(n) : n \in 0..MaxQuote}}

\* The tier's quote reaches the comparison of the loop.
TierQuoted(answer) == answer.pool = "exists" /\ answer.quote # None

\* v3.py:150-154, the replacement test of the fee-tier loop.
IsBetterTierQuote_NonStrict(mode, quote_amount, best_quote) ==
    \/ best_quote = None
    \/ mode = EXACT_INPUT /\ quote_amount >= best_quote[1]
    \/ mode = EXACT_OUTPUT /\ quote_amount <= best_quote[1]

IsBetterTierQuote(mode, quote_amount, best_quote) ==
    \/ best_quote = None
    \/ mode = EXACT_INPUT /\ quote_amount > best_quote[1]
    \/ mode = EXACT_OUTPUT /\ quote_amount < best_quote[1]

\* v3.py:113-159, the loop over self.fee_tiers from position i on: a tier
\* without pool, or whose pool lookup or quoter call raises, is passed over.
\* `decimals` is the decimal count of the quoted asset (the output asset of an
\* exact-input quote, the input asset of an exact-output one).
RECURSIVE FeeTierLoop(_, _, _, _, _, _)
FeeTierLoop(i, best_quote, best_fee_tier, answers, mode, decimals) ==
    IF i > Len(fee_tiers)
    THEN [best_quote |-> best_quote, best_fee_tier |-> best_fee_tier]
    ELSE IF ~TierQuoted(answers[i])
         THEN FeeTierLoop(i + 1, best_quote, best_fee_tier, answers, mode, decimals)
         ELSE LET quote_amount == to_decimal(answers[i].quote[1], decimals)
              IN IF IsBetterTierQuote(mode, quote_amount, best_quote)
                 THEN FeeTierLoop(i + 1, Some(quote_amount), Some(fee_tiers[i]),
                                  answers, mode, decimals)
                 ELSE FeeTierLoop(i + 1, best_quote, best_fee_tier, answers, mode, decimals)

\* The tag of a V3 route: f"uniswap_v3_{best_fee_tier}" (the tier stands for
\* the string built from it).
v3_protocol(best_fee_tier) == <<"uniswap_v3", best_fee_tier>>

\* UniswapV3.quote_swap, once the asset data and the contracts are there.
UniswapV3_quote_swap(amount, mode, answers, decimals) ==
    LET best == FeeTierLoop(1, None, None, answers, mode, decimals)
    IN IF best.best_quote = None \/ best.best_fee_tier = None
       THEN Raised(<<"ValueError", "No valid pool found">>)
       ELSE LET input_amount == IF mode = EXACT_INPUT THEN amount ELSE best.best_quote[1]
                output_amount == IF mode = EXACT_INPUT THEN best.best_quote[1] ELSE amount
                invalid == validate_swap_hop(input_amount, output_amount)
            IN IF invalid # None
               THEN Raised(invalid[1])
               ELSE Returned([input_amount |-> input_amount,
                              output_amount |-> output_amount,
                              mode |-> mode,
                              taxes |-> best.best_fee_tier[1],
                              protocol |-> v3_protocol(best.best_fee_tier[1])])

V3Idle ==
    [step |-> "idle", amount |-> 0, mode |-> "", decimals |-> 0,
     answers |-> <<>>, outcome |-> NoOutcome]

\* The strategy before a quote: the request and what the chain will answer
\* for each fee tier. The amount is a Decimal of whole tokens.
V3Start ==
    [step : {"start"}, amount : {Decimal(a) : a \in Amounts}, mode : SwapModes,
     decimals : {0, MaxDecimals},
     answers : [1..Len(fee_tiers) -> TierAnswers], outcome : {NoOutcome}]

V3QuoteSwap ==
    /\ v3.step = "start"
    /\ v3' = [v3 EXCEPT !.step = "quoted",
                        !.outcome = UniswapV3_quote_swap(v3.amount, v3.mode, v3.answers, v3.decimals)]
    /\ aggregator_unchanged
    /\ UNCHANGED <<v2, self, model, abi, tasks>>

----------------------------------------------------------------------------
\* The strategy objects: what a call initialises, invokes and returns
\*
\* A strategy object keeps its contracts (or its HTTP session) and
\* initialises them on first use; the assets passed to it load their data on
\* first use.  `initialized` is the set of the strategy's collaborators that
\* are initialised, `loaded` the set of argument assets whose data is
\* loaded.  A call is the list of the awaited steps it runs, in order; the
\* input fails_at picks the step that raises (0: none does).

StrategyClasses == {"UniswapV2", "UniswapV3", "Polymarket"}

ArgumentAssets == {"input", "output"}

\* if asset.data is None: await asset.initialize_data(), for both assets.
ensure_asset_data(loaded) ==
    (IF "input" \in loaded THEN <<>> ELSE <<"input_asset.initialize_data">>)
        \o (IF "output" \in loaded THEN <<>> ELSE <<"output_asset.initialize_data">>)

UniswapV2_ensure_contracts_initialized_unconditional(initialized) ==
    <<"factory_contract.initialize", "router_contract.initialize">>

UniswapV2_ensure_contracts_initialized(initialized) ==
    (IF "factory_contract" \in initialized THEN <<>> ELSE <<"factory_contract.initialize">>)
        \o (IF "router_contract" \in initialized THEN <<>> ELSE <<"router_contract.initialize">>)

UniswapV3_ensure_contracts_initialized(initialized) ==
    (IF "factory_contract" \in initialized THEN <<>> ELSE <<"factory_contract.initialize">>)
        \o (IF "router_contract" \in initialized THEN <<>> ELSE <<"router_contract.initialize">>)
        \o (IF "quoter_contract" \in initialized THEN <<>> ELSE <<"quoter_contract.initialize">>)

\* if self._session is None: self._session = aiohttp.ClientSession()
Polymarket_get_session(initialized) ==
    IF "_session" \in initialized THEN <<>> ELSE <<"aiohttp.ClientSession">>

\* What a completed step leaves initialised on the strategy object.
StepInitializes(step) ==
    CASE step = "factory_contract.initialize" -> {"factory_contract"}
      [] step = "router_contract.initialize" -> {"router_contract"}
      [] step = "quoter_contract.initialize" -> {"quoter_contract"}
      [] step = "aiohttp.ClientSession" -> {"_session"}
      [] OTHER -> {}

\* What a completed step leaves loaded on the argument assets.
StepLoads(step) ==
    CASE step = "input_asset.initialize_data" -> {"input"}
      [] step = "output_asset.initialize_data" -> {"output"}
      [] OTHER -> {}

\* Creating the session object awaits nothing and does not fail.
CanFail(step) == step # "aiohttp.ClientSession"

FailurePoints(steps) == {0} \cup {i \in 1..Len(steps) : CanFail(steps[i])}

Failed(steps, fails_at) == fails_at \in 1..Len(steps)

Invoked(steps, fails_at) == IF Failed(steps, fails_at) THEN SubSeq(steps, 1, fails_at) ELSE steps

Completed(steps, fails_at) == IF Failed(steps, fails_at) THEN SubSeq(steps, 1, fails_at - 1) ELSE steps

\* The values the strategies return, by their type; a transaction object
\* carries its current_state, a TxParams dict and the read results none.
TxParams == [type |-> "TxParams", current_state |-> None]
EthereumTransaction(current_state) == [type |-> "EthereumTransaction", current_state |-> Some(current_state)]
ReadValue(type) == [type |-> type, current_state |-> None]

\* The strategy object after a call that ran `steps` and then, if no step
\* raised, ended with the outcome `final`.
AfterCall(method, steps, fails_at, final) ==
    [class |-> self.class,
     initialized |-> self.initialized
         \cup UNION {StepInitializes(Completed(steps, fails_at)[i]) : i \in 1..Len(Completed(steps, fails_at))},
     loaded |-> self.loaded
         \cup UNION {StepLoads(Completed(steps, fails_at)[i]) : i \in 1..Len(Completed(steps, fails_at))},
     closed |-> self.closed,
     before |-> [initialized |-> self.initialized, loaded |-> self.loaded],
     method |-> method,
     invoked |-> Invoked(steps, fails_at),
     response |-> None,
     outcome |-> IF Failed(steps, fails_at)
                 THEN Raised(<<"Exception", steps[fails_at]>>)
                 ELSE final]

NoStrategy ==
    [class |-> "none", initialized |-> {}, loaded |-> {}, closed |-> {},
     before |-> [initialized |-> {}, loaded |-> {}],
     method |-> "__init__", invoked |-> <<>>, response |-> None, outcome |-> NoOutcome]

\* A strategy after __init__: nothing is initialised; the assets the caller
\* will pass may or may not have their data loaded.
StrategyStart ==
    [class : StrategyClasses, initialized : {{}}, loaded : SUBSET ArgumentAssets,
     closed : {{}},
     before : {[initialized |-> {}, loaded |-> {}]},
     method : {"__init__"}, invoked : {<<>>}, response : {None}, outcome : {NoOutcome}]

strategy_unchanged == UNCHANGED <<v2, v3, model, abi, tasks>>

\* UniswapV2.get_reserves, after the pair address is known to exist.
UniswapV2_get_reserves_steps(pair_exists) ==
    IF pair_exists
    THEN <<"pair_contract.initialize", "pair_contract.getReserves", "pair_contract.token0">>
    ELSE <<>>

\* UniswapV2._get_pair
UniswapV2_get_pair_steps(initialized) ==
    UniswapV2_ensure_contracts_initialized(initialized) \o <<"factory_contract.getPair">>

NoPairFound == Raised(<<"ValueError", "No pair found">>)

\* UniswapV2.quote_swap: asset data, the pair, the reserves (which asks for
\* the pair again), then the formula; `valid` says whether the formula and
\* the SwapHop validation succeed.
UniswapV2QuoteSwap ==
    /\ self.class = "UniswapV2"
    /\ \E pair_exists \in BOOLEAN, valid \in BOOLEAN :
        LET first == ensure_asset_data(self.loaded)
                        \o UniswapV2_get_pair_steps(self.initialized)
            steps == first \o (IF pair_exists
                               THEN <<"factory_contract.getPair">>
                                        \o UniswapV2_get_reserves_steps(TRUE)
                               ELSE <<>>)
        IN \E fails_at \in FailurePoints(steps) :
            self' = AfterCall("quote_swap", steps, fails_at,
                            IF ~pair_exists THEN NoPairFound
                            ELSE IF valid THEN Returned(ReadValue("SwapRoute"))
                            ELSE Raised(<<"ValueError", "Invalid quote">>))
    /\ aggregator_unchanged
    /\ strategy_unchanged

\* UniswapV2.get_reserves
UniswapV2GetReserves ==
    /\ self.class = "UniswapV2"
    /\ \E pair_exists \in BOOLEAN :
        LET steps == ensure_asset_data(self.loaded)
                        \o UniswapV2_get_pair_steps(self.initialized)
                        \o UniswapV2_get_reserves_steps(pair_exists)
        IN \E fails_at \in FailurePoints(steps) :
            self' = AfterCall("get_reserves", steps, fails_at,
                            IF pair_exists THEN Returned(ReadValue("tuple")) ELSE NoPairFound)
    /\ aggregator_unchanged
    /\ strategy_unchanged

MultiHopNotSupported == Raised(<<"ValueError", "Only single-hop swaps are supported">>)

\* The awaited steps of a build_swap_transaction, for a route of `hops` hops.
build_swap_transaction_steps(ensure_contracts, hops) ==
    IF hops # 1 THEN <<>>
    ELSE ensure_asset_data(self.loaded) \o ensure_contracts \o <<"wallet.build_transaction">>

\* UniswapV2.build_swap_transaction: returns what wallet.build_transaction
\* returns, the transaction parameters.
UniswapV2BuildSwapTransaction ==
    /\ self.class = "UniswapV2"
    /\ \E hops \in MaxHops :
        LET steps == build_swap_transaction_steps(
                         UniswapV2_ensure_contracts_initialized(self.initialized), hops)
        IN \E fails_at \in FailurePoints(steps) :
            self' = AfterCall("build_swap_transaction", steps, fails_at,
                            IF hops # 1 THEN MultiHopNotSupported ELSE Returned(TxParams))
    /\ aggregator_unchanged
    /\ strategy_unchanged

\* UniswapV2.create_swap_transaction: build_swap_transaction, then the
\* wallet signs and sends what it built and returns the sent transaction.
UniswapV2CreateSwapTransaction ==
    /\ self.class = "UniswapV2"
    /\ \E hops \in MaxHops :
        LET built == build_swap_transaction_steps(
                         UniswapV2_ensure_contracts_initialized(self.initialized), hops)
            steps == IF hops # 1 THEN <<>>
                     ELSE built \o <<"wallet.sign_and_send_transaction">>
        IN \E fails_at \in FailurePoints(steps) :
            self' = AfterCall("create_swap_transaction", steps, fails_at,
                        IF hops # 1 THEN MultiHopNotSupported
                        ELSE Returned(EthereumTransaction("BROADCASTED")))
    /\ aggregator_unchanged
    /\ strategy_unchanged

\* UniswapV3.quote_swap: asset data and contracts, then the fee-tier loop,
\* whose failures are caught; `found` says whether a tier gave a valid quote.
UniswapV3QuoteSwap ==
    /\ self.class = "UniswapV3"
    /\ \E found \in BOOLEAN :
        LET steps == ensure_asset_data(self.loaded)
                        \o UniswapV3_ensure_contracts_initialized(self.initialized)
        IN \E fails_at \in FailurePoints(steps) :
            self' = AfterCall("quote_swap", steps, fails_at,
                            IF found THEN Returned(ReadValue("SwapRoute"))
                            ELSE Raised(<<"ValueError", "No valid pool found">>))
    /\ aggregator_unchanged
    /\ strategy_unchanged

\* UniswapV3.build_swap_transaction
UniswapV3BuildSwapTransaction ==
    /\ self.class = "UniswapV3"
    /\ \E hops \in MaxHops :
        LET steps == build_swap_transaction_steps(
                         UniswapV3_ensure_contracts_initialized(self.initialized), hops)
        IN \E fails_at \in FailurePoints(steps) :
            self' = AfterCall("build_swap_transaction", steps, fails_at,
                            IF hops # 1 THEN MultiHopNotSupported ELSE Returned(TxParams))
    /\ aggregator_unchanged
    /\ strategy_unchanged

\* Polymarket._make_api_request: the session, then the GET.
Polymarket_make_api_request(initialized) ==
    Polymarket_get_session(initialized) \o <<"session.get">>

\* A GET on a session that close() has closed cannot complete: the request
\* step is then the failing one.
RequestFailurePoints(steps) ==
    IF "_session" \in self.closed THEN {Len(steps)} ELSE FailurePoints(steps)

\* What the markets API answers for one market: the JSON object, of which
\* only the "prices" key is kept (None: the key is missing).
MarketResponses == [prices : {None} \cup {Some(p) : p \in Prices}]

\* market_data.get("prices", [0.5, 0.5])[i], in hundredths.
DefaultPrice == 50

\* Polymarket._parse_market_data: the current_price of the outcome token.
Polymarket_parse_price(market_data) ==
    IF market_data.prices = None THEN DefaultPrice ELSE market_data.prices[1]

\* The strategy after a call whose API request was answered with
\* `market_data`, if the request completed.
AfterRequest(method, steps, fails_at, final, market_data) ==
    [AfterCall(method, steps, fails_at, final) EXCEPT
        !.response = IF Failed(steps, fails_at) THEN None ELSE Some(market_data)]

\* Polymarket.get_market
PolymarketGetMarket ==
    /\ self.class = "Polymarket"
    /\ \E market_data \in MarketResponses :
        LET steps == Polymarket_make_api_request(self.initialized)
        IN \E fails_at \in RequestFailurePoints(steps) :
            self' = AfterRequest("get_market", steps, fails_at,
                        Returned([type |-> "BettingMarket", current_state |-> None,
                                  current_price |-> Polymarket_parse_price(market_data)]),
                        market_data)
    /\ aggregator_unchanged
    /\ strategy_unchanged

\* Polymarket.get_outcome_token_price: get_market, then the token is looked
\* up in the market's outcomes and its current_price returned.
PolymarketGetOutcomeTokenPrice ==
    /\ self.class = "Polymarket"
    /\ \E token_found \in BOOLEAN, market_data \in MarketResponses :
        LET steps == Polymarket_make_api_request(self.initialized)
        IN \E fails_at \in RequestFailurePoints(steps) :
            self' = AfterRequest("get_outcome_token_price", steps, fails_at,
                        IF token_found
                        THEN Returned([type |-> "Decimal", current_state |-> None,
                                       amount |-> Polymarket_parse_price(market_data)])
                        ELSE Raised(<<"ValueError", "Outcome token not found">>),
                        market_data)
    /\ aggregator_unchanged
    /\ strategy_unchanged

\* Polymarket.close: closes the session if there is one; self._session
\* keeps referring to it.
PolymarketClose ==
    /\ self.class = "Polymarket"
    /\ LET steps == IF "_session" \in self.initialized THEN <<"session.close">> ELSE <<>>
       IN self' = [AfterCall("close", steps, 0, Returned(ReadValue("None"))) EXCEPT
                      !.closed = IF "_session" \in self.initialized
                                 THEN self.closed \cup {"_session"}
                                 ELSE self.closed]
    /\ aggregator_unchanged
    /\ strategy_unchanged

\* The three Polymarket builders await nothing: each returns a placeholder
\* EthereumTransaction constructed with current_state = BROADCASTED, unless
\* EthereumAddress.from_string rejects the user address.
Polymarket_placeholder_transaction(valid_address) ==
    IF valid_address THEN Returned(EthereumTransaction("BROADCASTED"))
    ELSE Raised(<<"ValueError", "Invalid address">>)

\* Polymarket.build_buy_transaction
PolymarketBuildBuyTransaction ==
    /\ self.class = "Polymarket"
    /\ \E valid_address \in BOOLEAN :
        self' = AfterCall("build_buy_transaction", <<>>, 0,
                    Polymarket_placeholder_transaction(valid_address))
    /\ aggregator_unchanged
    /\ strategy_unchanged

\* Polymarket.build_sell_transaction
PolymarketBuildSellTransaction ==
    /\ self.class = "Polymarket"
    /\ \E valid_address \in BOOLEAN :
        self' = AfterCall("build_sell_transaction", <<>>, 0,
                    Polymarket_placeholder_transaction(valid_address))
    /\ aggregator_unchanged
    /\ strategy_unchanged

\* Polymarket.build_redeem_transaction
PolymarketBuildRedeemTransaction ==
    /\ self.class = "Polymarket"
    /\ \E valid_address \in BOOLEAN :
        self' = AfterCall("build_redeem_transaction", <<>>, 0,
                    Polymarket_placeholder_transaction(valid_address))
    /\ aggregator_unchanged
    /\ strategy_unchanged

----------------------------------------------------------------------------
\* The model values: construction, validation and later assignment
\*
\* SwapHop, OutcomeToken and BettingMarket are pydantic models with an
\* "after" validator and no frozen / validate_assignment configuration: the
\* validator runs when a value is constructed (or re-validated through
\* model_validate), and a field of a constructed value can be assigned.
\* `model` holds the fields of the value (for a failed construction: the
\* arguments), the error of its construction, and what produced it as it
\* is now: the constructor, model_validate, or an assignment to a field.  Amounts and probabilities are Decimals; dates are
\* integers.

MaxDate == 2

\* Decimal amounts: -1, 0, 0.5 and 1.
HopAmounts == {Decimal(0 - 1), Decimal(0), Scale \div 2, Decimal(1)}

\* SwapHop.validate_swap_hop: the ValueError of the first failing check, or None.
SwapHop_validate_swap_hop(input_asset, input_amount, output_asset, output_amount, are_amounts_raw) ==
    IF input_asset = output_asset
    THEN Some(<<"ValueError", "Input and output assets must be different.">>)
    ELSE IF validate_swap_hop(input_amount, output_amount) # None
    THEN validate_swap_hop(input_amount, output_amount)
    ELSE IF are_amounts_raw /\ (input_amount % Scale # 0 \/ output_amount % Scale # 0)
    THEN Some(<<"ValueError", "Raw amounts must be integers.">>)
    ELSE None

validate_probability_lower_only(probability) ==
    IF ~(Decimal(0) <= probability)
    THEN Some(<<"ValueError", "Probability must be between 0 and 1">>)
    ELSE None

\* OutcomeToken.validate_probability
validate_probability(probability) ==
    IF ~(Decimal(0) <= probability /\ probability <= Decimal(1))
    THEN Some(<<"ValueError", "Probability must be between 0 and 1">>)
    ELSE None

ACTIVE == "active"
CLOSED == "closed"
RESOLVED == "resolved"
CANCELLED == "cancelled"
MarketStatus == {ACTIVE, CLOSED, RESOLVED, CANCELLED}

validate_market_consistency_dates_only(status, resolved_outcome_id, creation_date, end_date) ==
    IF end_date # None /\ end_date[1] < creation_date
    THEN Some(<<"ValueError", "End date cannot be before creation date">>)
    ELSE None

\* BettingMarket.validate_market_consistency; a datetime is always truthy, a
\* resolved_outcome_id is truthy unless it is None or "".
validate_market_consistency(status, resolved_outcome_id, creation_date, end_date) ==
    IF status = RESOLVED /\ ~Truthy(resolved_outcome_id)
    THEN Some(<<"ValueError", "Resolved markets must have a resolved outcome ID">>)
    ELSE IF end_date # None /\ end_date[1] < creation_date
    THEN Some(<<"ValueError", "End date cannot be before creation date">>)
    ELSE None

SwapHopFields ==
    [input_asset : Assets, input_amount : HopAmounts,
     output_asset : Assets, output_amount : HopAmounts, are_amounts_raw : BOOLEAN]

Probabilities == {Decimal(0 - 1), Decimal(0), Scale \div 2, Decimal(1), Decimal(2)}

OutcomeTokenFields == [probability : Probabilities]

OutcomeIds == {None, Some(""), Some("outcome_1")}

Dates == 0..MaxDate

BettingMarketFields ==
    [status : MarketStatus, resolved_outcome_id : OutcomeIds,
     creation_date : Dates, end_date : {None} \cup {Some(d) : d \in Dates}]

\* The validators a class runs on the fields f.
Validate(type, f) ==
    CASE type = "SwapHop" ->
            SwapHop_validate_swap_hop(f.input_asset, f.input_amount, f.output_asset,
                                      f.output_amount, f.are_amounts_raw)
      [] type = "OutcomeToken" -> validate_probability(f.probability)
      [] type = "UserAccountData" -> None
      [] OTHER ->
            validate_market_consistency(f.status, f.resolved_outcome_id,
                                        f.creation_date, f.end_date)

\* Class(**f): the value, or the validation error and no value.
Construct(type, f, origin) ==
    [type |-> type, fields |-> f, error |-> Validate(type, f), origin |-> origin]

NoValue == [type |-> "none", fields |-> <<>>, error |-> None, origin |-> "none"]

Constructed == model.type # "none" /\ model.error = None

models_unchanged == UNCHANGED <<v2, v3, self, abi, tasks>>

ConstructSwapHop ==
    /\ \E f \in SwapHopFields : model' = Construct("SwapHop", f, "constructor")
    /\ aggregator_unchanged
    /\ models_unchanged

ConstructOutcomeToken ==
    /\ \E f \in OutcomeTokenFields : model' = Construct("OutcomeToken", f, "constructor")
    /\ aggregator_unchanged
    /\ models_unchanged

ConstructBettingMarket ==
    /\ \E f \in BettingMarketFields : model' = Construct("BettingMarket", f, "constructor")
    /\ aggregator_unchanged
    /\ models_unchanged

\* hop.input_amount = v or hop.output_amount = v on a constructed SwapHop:
\* the field is set, no validator runs.
SetSwapHopAmount ==
    /\ Constructed /\ model.type = "SwapHop"
    /\ \E name \in {"input_amount", "output_amount"}, v \in HopAmounts :
        model' = [model EXCEPT !.fields = [@ EXCEPT ![name] = v], !.origin = "assignment"]
    /\ aggregator_unchanged
    /\ models_unchanged

\* token.probability = v on a constructed OutcomeToken.
SetOutcomeTokenProbability ==
    /\ Constructed /\ model.type = "OutcomeToken"
    /\ \E v \in Probabilities :
        model' = [model EXCEPT !.fields = [@ EXCEPT !.probability = v], !.origin = "assignment"]
    /\ aggregator_unchanged
    /\ models_unchanged

\* market.status = v on a constructed BettingMarket.
SetBettingMarketStatus ==
    /\ Constructed /\ model.type = "BettingMarket"
    /\ \E v \in MarketStatus :
        model' = [model EXCEPT !.fields = [@ EXCEPT !.status = v], !.origin = "assignment"]
    /\ aggregator_unchanged
    /\ models_unchanged

\* market.resolved_outcome_id = v on a constructed BettingMarket.
SetBettingMarketResolvedOutcomeId ==
    /\ Constructed /\ model.type = "BettingMarket"
    /\ \E v \in OutcomeIds :
        model' = [model EXCEPT !.fields = [@ EXCEPT !.resolved_outcome_id = v], !.origin = "assignment"]
    /\ aggregator_unchanged
    /\ models_unchanged

\* market.end_date = v on a constructed BettingMarket.
SetBettingMarketEndDate ==
    /\ Constructed /\ model.type = "BettingMarket"
    /\ \E v \in {None} \cup {Some(d) : d \in Dates} :
        model' = [model EXCEPT !.fields = [@ EXCEPT !.end_date = v], !.origin = "assignment"]
    /\ aggregator_unchanged
    /\ models_unchanged

\* Health factors in hundredths: Decimal("2.0") is 200.
MaxHealthFactor == 260
HealthFactors == (0 - 10)..MaxHealthFactor

LowRiskAbove == 200
MediumRiskAbove == 150
HighRiskAbove == 110

liquidation_risk_level_inclusive(health_factor) ==
    IF health_factor >= LowRiskAbove THEN "LOW"
    ELSE IF health_factor >= MediumRiskAbove THEN "MEDIUM"
    ELSE IF health_factor >= HighRiskAbove THEN "HIGH"
    ELSE "CRITICAL"

\* UserAccountData.liquidation_risk_level
liquidation_risk_level(health_factor) ==
    IF health_factor > LowRiskAbove THEN "LOW"
    ELSE IF health_factor > MediumRiskAbove THEN "MEDIUM"
    ELSE IF health_factor > HighRiskAbove THEN "HIGH"
    ELSE "CRITICAL"

\* UserAccountData has no validator; risk_level is what the caller last
\* read from the liquidation_risk_level property (None: not read yet).
ConstructUserAccountData ==
    /\ \E h \in HealthFactors :
        model' = Construct("UserAccountData", [health_factor |-> h, risk_level |-> None], "constructor")
    /\ aggregator_unchanged
    /\ models_unchanged

\* account.liquidation_risk_level is read.
ReadLiquidationRiskLevel ==
    /\ Constructed /\ model.type = "UserAccountData"
    /\ model' = [model EXCEPT !.fields.risk_level = Some(liquidation_risk_level(model.fields.health_factor))]
    /\ aggregator_unchanged
    /\ models_unchanged

\* Class.model_validate(value.model_dump()): a new value is constructed from
\* the fields as they are now.
ModelValidate ==
    /\ Constructed /\ model.origin = "assignment"
    /\ model' = Construct(model.type, model.fields, "model_validate")
    /\ aggregator_unchanged
    /\ models_unchanged

----------------------------------------------------------------------------
\* The ABI sources: a local file, and the Etherscan explorer
\*
\* `abi` holds the call and its inputs (what the file holds, what Etherscan
\* answers to the two requests), the HTTP session of the call (created by
\* the call or supplied by the caller, and how often it was closed), the
\* requests issued and the outcome.

FileContents == {"missing", "malformed", "scalar", "artifact", "list", "dict"}

\* EthereumLocalFileABI.get_abi: open() raises FileNotFoundError, json.load
\* raises json.JSONDecodeError (a ValueError), anything that is no list and
\* no dict raises the ValueError of the method.
EthereumLocalFileABI_get_abi(file) ==
    CASE file = "missing" -> Raised(<<"FileNotFoundError", "No such file or directory">>)
      [] file = "malformed" -> Raised(<<"JSONDecodeError", "Expecting value">>)
      [] file = "scalar" -> Raised(<<"ValueError", "Invalid ABI format in file">>)
      [] OTHER -> Returned("abi")

\* What Etherscan answers to getsourcecode.
MetadataAnswers == {"http_error", "transport_error", "api_error", "not_proxy", "proxy_inline", "proxy_implementation"}

\* What Etherscan answers to getabi.
AbiAnswers == {"http_error", "transport_error", "not_dict", "api_error", "not_string", "malformed", "scalar", "abi"}

HttpError == Raised(<<"ValueError", "Failed to fetch ABI from Etherscan: HTTP status">>)
TransportError == Raised(<<"ValueError", "Failed to fetch ABI from Etherscan">>)

_decode_abi_payload_lenient(payload) ==
    CASE payload = "abi" -> Returned("abi")
      [] OTHER -> Returned("empty")

\* EtherscanExplorer._decode_abi_payload
_decode_abi_payload(payload) ==
    CASE payload = "not_dict" -> Raised(<<"ValueError", "Unexpected response format returned by Etherscan">>)
      [] payload = "api_error" -> Raised(<<"ValueError", "Etherscan ABI fetch failed">>)
      [] payload = "not_string" -> Raised(<<"ValueError", "Etherscan ABI payload is not a JSON string">>)
      [] payload = "malformed" -> Raised(<<"ValueError", "Etherscan returned malformed ABI JSON">>)
      [] payload = "scalar" -> Raised(<<"ValueError", "Etherscan ABI must decode to a list or dict">>)
      [] OTHER -> Returned("abi")

\* EtherscanExplorer._resolve_target_contract: the address to ask the ABI
\* of and the inline ABI, or the client error of the request, which only
\* the caller catches; a ValueError of the metadata is caught here.
_resolve_target_contract(metadata) ==
    CASE metadata = "http_error" -> [raised |-> Some("ClientResponseError"), target |-> "contract", inline_abi |-> None]
      [] metadata = "transport_error" -> [raised |-> Some("ClientError"), target |-> "contract", inline_abi |-> None]
      [] metadata = "proxy_inline" -> [raised |-> None, target |-> "contract", inline_abi |-> Some("abi")]
      [] metadata = "proxy_implementation" -> [raised |-> None, target |-> "implementation", inline_abi |-> None]
      [] OTHER -> [raised |-> None, target |-> "contract", inline_abi |-> None]

SessionCloses_not_on_early_return(close_session, exit) ==
    IF close_session /\ exit # "inline_abi" THEN 1 ELSE 0

\* finally: if close_session: await client_session.close()
SessionCloses(close_session, exit) ==
    IF close_session THEN 1 ELSE 0

\* EtherscanExplorer.fetch_contract_abi.  `exit` is the path the try block
\* is left by.
fetch_contract_abi(valid_address, supplied, metadata, answer) ==
    IF ~valid_address
    THEN [outcome |-> Raised(<<"ValueError", "Invalid address">>),
          session |-> [supplied |-> supplied, created |-> FALSE, closes |-> 0],
          requests |-> <<>>]
    ELSE
    LET close_session == ~supplied
        resolved == _resolve_target_contract(metadata)
        exit == IF resolved.raised # None THEN "metadata_error"
                ELSE IF resolved.inline_abi # None THEN "inline_abi"
                ELSE IF answer \in {"http_error", "transport_error"} THEN "abi_error"
                ELSE "payload"
        requests == IF exit \in {"metadata_error", "inline_abi"}
                    THEN <<[action |-> "getsourcecode", address |-> "contract"]>>
                    ELSE <<[action |-> "getsourcecode", address |-> "contract"],
                           [action |-> "getabi", address |-> resolved.target]>>
    IN [outcome |-> CASE exit = "metadata_error" ->
                             (IF resolved.raised = Some("ClientResponseError") THEN HttpError ELSE TransportError)
                      [] exit = "inline_abi" -> Returned(resolved.inline_abi[1])
                      [] exit = "abi_error" ->
                             (IF answer = "http_error" THEN HttpError ELSE TransportError)
                      [] OTHER -> _decode_abi_payload(answer),
        session |-> [supplied |-> supplied, created |-> close_session,
                     closes |-> SessionCloses(close_session, exit)],
        requests |-> requests]

\* EthereumEtherscanABI.get_abi: fetch_contract_abi without a session; a
\* ValueError is raised again as a ValueError that names the contract.
EthereumEtherscanABI_get_abi(valid_address, metadata, answer) ==
    LET fetched == fetch_contract_abi(valid_address, FALSE, metadata, answer)
    IN IF fetched.outcome.raised # None /\ fetched.outcome.raised[1][1] = "ValueError"
       THEN [fetched EXCEPT !.outcome = Raised(<<"ValueError", "Unable to fetch ABI from Etherscan">>)]
       ELSE fetched

ABICalls == {"EthereumLocalFileABI.get_abi", "EthereumEtherscanABI.get_abi", "EtherscanExplorer.fetch_contract_abi"}

NoSession == [supplied |-> FALSE, created |-> FALSE, closes |-> 0]

NoABI ==
    [step |-> "idle", call |-> "", file |-> "", valid_address |-> TRUE, metadata |-> "", answer |-> "",
     session |-> NoSession, requests |-> <<>>, outcome |-> NoOutcome]

\* The calls and their inputs; only fetch_contract_abi can be given a session.
ABIStart ==
    [step : {"start"}, call : {"EthereumLocalFileABI.get_abi"}, file : FileContents,
     valid_address : {TRUE}, metadata : {""}, answer : {""},
     session : {NoSession}, requests : {<<>>}, outcome : {NoOutcome}]
    \cup
    [step : {"start"}, call : {"EthereumEtherscanABI.get_abi"}, file : {""},
     valid_address : BOOLEAN, metadata : MetadataAnswers, answer : AbiAnswers,
     session : {NoSession}, requests : {<<>>}, outcome : {NoOutcome}]
    \cup
    [step : {"start"}, call : {"EtherscanExplorer.fetch_contract_abi"}, file : {""},
     valid_address : BOOLEAN, metadata : MetadataAnswers, answer : AbiAnswers,
     session : {[supplied |-> b, created |-> FALSE, closes |-> 0] : b \in BOOLEAN},
     requests : {<<>>}, outcome : {NoOutcome}]

abi_unchanged == UNCHANGED <<v2, v3, self, model, tasks>>

LocalFileGetABI ==
    /\ abi.step = "start" /\ abi.call = "EthereumLocalFileABI.get_abi"
    /\ abi' = [abi EXCEPT !.step = "done", !.outcome = EthereumLocalFileABI_get_abi(abi.file)]
    /\ aggregator_unchanged
    /\ abi_unchanged

EtherscanGetABI ==
    /\ abi.step = "start" /\ abi.call = "EthereumEtherscanABI.get_abi"
    /\ LET done == EthereumEtherscanABI_get_abi(abi.valid_address, abi.metadata, abi.answer)
       IN abi' = [abi EXCEPT !.step = "done", !.outcome = done.outcome,
                             !.session = done.session, !.requests = done.requests]
    /\ aggregator_unchanged
    /\ abi_unchanged

FetchContractABI ==
    /\ abi.step = "start" /\ abi.call = "EtherscanExplorer.fetch_contract_abi"
    /\ LET done == fetch_contract_abi(abi.valid_address, abi.session.supplied, abi.metadata, abi.answer)
       IN abi' = [abi EXCEPT !.step = "done", !.outcome = done.outcome,
                             !.session = done.session, !.requests = done.requests]
    /\ aggregator_unchanged
    /\ abi_unchanged

----------------------------------------------------------------------------
\* Concurrent calls on one Uniswap strategy
\*
\* Every quote, reserve or build call runs _ensure_contracts_initialized.
\* The calls are asyncio tasks on one event loop: a task runs until it
\* awaits something that suspends, and the others run meanwhile.
\* `tasks` holds the is_initialized flag of each contract, how often its
\* initialize() was called, and each task's position in
\* _ensure_contracts_initialized: the contract it is at, and whether it is
\* about to test the flag or is suspended inside initialize().

MaxTasks == 2

\* The contracts in the order _ensure_contracts_initialized goes through them.
EnsuredContracts(class) ==
    IF class = "UniswapV3"
    THEN <<"factory_contract", "router_contract", "quoter_contract">>
    ELSE <<"factory_contract", "router_contract">>

NoTasks == [class |-> "none", is_initialized |-> {}, initialize_calls |-> <<>>, pc |-> <<>>]

\* A fresh strategy on which MaxTasks calls have been started.
TasksStart ==
    {[class |-> class,
      is_initialized |-> {},
      initialize_calls |-> [i \in 1..Len(EnsuredContracts(class)) |-> 0],
      pc |-> [t \in 1..MaxTasks |-> [at |-> 1, awaiting |-> FALSE]]] :
        class \in {"UniswapV2", "UniswapV3"}}

tasks_unchanged == UNCHANGED <<v2, v3, self, model, abi>>

\* if not self.<contract>.is_initialized: await self.<contract>.initialize()
\* up to the point where initialize() suspends; with `suspends` false it
\* completes without giving way to another task.
EnsureContract ==
    /\ \E t \in DOMAIN tasks.pc, suspends \in BOOLEAN :
        LET i == tasks.pc[t].at
            contracts == EnsuredContracts(tasks.class)
        IN /\ i <= Len(contracts)
           /\ ~tasks.pc[t].awaiting
           /\ tasks' =
                IF contracts[i] \in tasks.is_initialized
                THEN [tasks EXCEPT !.pc[t].at = i + 1]
                ELSE IF suspends
                THEN [tasks EXCEPT !.initialize_calls[i] = @ + 1,
                                   !.pc[t].awaiting = TRUE]
                ELSE [tasks EXCEPT !.initialize_calls[i] = @ + 1,
                                   !.is_initialized = @ \cup {contracts[i]},
                                   !.pc[t].at = i + 1]
    /\ aggregator_unchanged
    /\ tasks_unchanged

\* The initialize() a task is suspended in completes: the contract is
\* initialised and the task goes on to the next contract.
InitializeCompletes ==
    /\ \E t \in DOMAIN tasks.pc :
        LET i == tasks.pc[t].at
        IN /\ tasks.pc[t].awaiting
           /\ tasks' = [tasks EXCEPT !.is_initialized = @ \cup {EnsuredContracts(tasks.class)[i]},
                                     !.pc[t] = [at |-> i + 1, awaiting |-> FALSE]]
    /\ aggregator_unchanged
    /\ tasks_unchanged


----------------------------------------------------------------------------
\* Specification

Configurations(k) ==
    CASE k = "money_market" ->
            [default_interest_rate_mode : {"stable", "variable"},
             default_collateral_mode : {"enabled", "disabled"},
             default_slippage_tolerance : {0}]
      [] k = "betting_market" ->
            [default_interest_rate_mode : {"variable"},
             default_collateral_mode : {"enabled"},
             default_slippage_tolerance : {1, 5}]
      [] OTHER ->
            [default_interest_rate_mode : {"variable"},
             default_collateral_mode : {"enabled"},
             default_slippage_tolerance : {0}]

\* The state after __init__: _initialize_protocols has filled the registry
\* from the configured protocols, and no operation has run.
Init ==
    /\ kind \in Kinds
    /\ _protocol_strategies \in KeyOrders(ProtocolNames(kind), MaxProtocols)
    /\ configuration \in Configurations(kind)
    /\ op = [name |-> "__init__", protocol |-> None, args |-> <<>>]
    /\ result = NoResult
    /\ calls = <<>>
    /\ held = None
    /\ v2 = V2Idle
    /\ v3 = V3Idle
    /\ self = NoStrategy
    /\ model = NoValue
    /\ abi = NoABI
    /\ tasks = NoTasks

\* The caller keeps the route a quote returned, to update or execute it.
Keep ==
    /\ RouteReturned
    /\ op' = [name |-> "__init__", protocol |-> None, args |-> <<>>]
    /\ result' = NoResult
    /\ calls' = <<>>
    /\ held' = result.val
    /\ UNCHANGED <<kind, _protocol_strategies, configuration, v2, v3, self, model, abi, tasks>>

\* The caller drops the result of its last operation and the route it holds;
\* the next operation starts from a clean log.
Forget ==
    /\ ~Idle
    /\ op' = [name |-> "__init__", protocol |-> None, args |-> <<>>]
    /\ result' = NoResult
    /\ calls' = <<>>
    /\ held' = None
    /\ UNCHANGED <<kind, _protocol_strategies, configuration, v2, v3, self, model, abi, tasks>>

Next ==
    \/ QuoteSwap
    \/ UpdateQuote
    \/ FindBestRoute
    \/ ExecuteSwap
    \/ GetReserves
    \/ GetMarketData
    \/ GetUserAccountData
    \/ GetLendingPositions
    \/ GetBorrowingPositions
    \/ Supply
    \/ Withdraw
    \/ Borrow
    \/ Repay
    \/ SetCollateralMode
    \/ Liquidate
    \/ GetMarket
    \/ GetMarkets
    \/ GetUserPositions
    \/ GetOutcomeTokenPrice
    \/ BuyOutcomeTokens
    \/ SellOutcomeTokens
    \/ RedeemWinnings
    \/ GetBuyQuote
    \/ GetSellQuote
    \/ Keep
    \/ Forget

Spec == Init /\ [][Next]_vars

\* The Uniswap V2 strategy alone, one call (or one call and its inverse) per
\* behaviour; the aggregator around it is a UniswapDEX that is not used.
InitV2 ==
    /\ kind = "dex"
    /\ _protocol_strategies = <<"uniswap_v2">>
    /\ configuration \in Configurations("dex")
    /\ op = [name |-> "__init__", protocol |-> None, args |-> <<>>]
    /\ result = NoResult
    /\ calls = <<>>
    /\ held = None
    /\ v2 \in V2Start
    /\ v3 = V3Idle
    /\ self = NoStrategy
    /\ model = NoValue
    /\ abi = NoABI
    /\ tasks = NoTasks

NextV2 ==
    \/ GetAmountOut
    \/ GetAmountInOfOut
    \/ GetAmountIn
    \/ GetAmountOutOfIn
    \/ V2QuoteSwap

SpecV2 == InitV2 /\ [][NextV2]_vars

\* The Uniswap V3 strategy alone, one quote per behaviour.
InitV3 ==
    /\ kind = "dex"
    /\ _protocol_strategies = <<"uniswap_v3">>
    /\ configuration \in Configurations("dex")
    /\ op = [name |-> "__init__", protocol |-> None, args |-> <<>>]
    /\ result = NoResult
    /\ calls = <<>>
    /\ held = None
    /\ v2 = V2Idle
    /\ v3 \in V3Start
    /\ self = NoStrategy
    /\ model = NoValue
    /\ abi = NoABI
    /\ tasks = NoTasks

NextV3 == V3QuoteSwap

SpecV3 == InitV3 /\ [][NextV3]_vars

\* A strategy object alone, any number of calls on it; the aggregator
\* around it is not used.
\* The registry key a strategy of each class is configured under.
StrategyKey(class) ==
    CASE class = "UniswapV2" -> "uniswap_v2"
      [] class = "UniswapV3" -> "uniswap_v3"
      [] OTHER -> "Polymarket 1"

InitStrategy ==
    /\ self \in StrategyStart
    /\ kind = (IF self.class = "Polymarket" THEN "betting_market" ELSE "dex")
    /\ _protocol_strategies = <<StrategyKey(self.class)>>
    /\ configuration \in Configurations(kind)
    /\ op = [name |-> "__init__", protocol |-> None, args |-> <<>>]
    /\ result = NoResult
    /\ calls = <<>>
    /\ held = None
    /\ v2 = V2Idle
    /\ v3 = V3Idle
    /\ model = NoValue
    /\ abi = NoABI
    /\ tasks = NoTasks

NextStrategy ==
    \/ UniswapV2QuoteSwap
    \/ UniswapV2GetReserves
    \/ UniswapV2BuildSwapTransaction
    \/ UniswapV2CreateSwapTransaction
    \/ UniswapV3QuoteSwap
    \/ UniswapV3BuildSwapTransaction
    \/ PolymarketGetMarket
    \/ PolymarketGetOutcomeTokenPrice
    \/ PolymarketClose
    \/ PolymarketBuildBuyTransaction
    \/ PolymarketBuildSellTransaction
    \/ PolymarketBuildRedeemTransaction

SpecStrategy == InitStrategy /\ [][NextStrategy]_vars

\* The model values alone: values are constructed, assigned to and
\* re-validated; no aggregator or strategy is used.
InitModels ==
    /\ kind = "dex"
    /\ _protocol_strategies = <<>>
    /\ configuration \in Configurations("dex")
    /\ op = [name |-> "__init__", protocol |-> None, args |-> <<>>]
    /\ result = NoResult
    /\ calls = <<>>
    /\ held = None
    /\ v2 = V2Idle
    /\ v3 = V3Idle
    /\ self = NoStrategy
    /\ model = NoValue
    /\ abi = NoABI
    /\ tasks = NoTasks

NextModels ==
    \/ ConstructSwapHop
    \/ ConstructOutcomeToken
    \/ ConstructBettingMarket
    \/ SetSwapHopAmount
    \/ SetOutcomeTokenProbability
    \/ SetBettingMarketStatus
    \/ SetBettingMarketResolvedOutcomeId
    \/ SetBettingMarketEndDate
    \/ ConstructUserAccountData
    \/ ReadLiquidationRiskLevel
    \/ ModelValidate

SpecModels == InitModels /\ [][NextModels]_vars

\* An ABI source alone, one call per behaviour.
InitABI ==
    /\ kind = "dex"
    /\ _protocol_strategies = <<>>
    /\ configuration \in Configurations("dex")
    /\ op = [name |-> "__init__", protocol |-> None, args |-> <<>>]
    /\ result = NoResult
    /\ calls = <<>>
    /\ held = None
    /\ v2 = V2Idle
    /\ v3 = V3Idle
    /\ self = NoStrategy
    /\ model = NoValue
    /\ abi \in ABIStart
    /\ tasks = NoTasks

NextABI ==
    \/ LocalFileGetABI
    \/ EtherscanGetABI
    \/ FetchContractABI

SpecABI == InitABI /\ [][NextABI]_vars

\* Concurrent calls on one Uniswap strategy: the tasks interleave at the
\* points where an initialize() suspends.
InitTasks ==
    /\ kind = "dex"
    /\ tasks \in TasksStart
    /\ _protocol_strategies = <<StrategyKey(tasks.class)>>
    /\ configuration \in Configurations("dex")
    /\ op = [name |-> "__init__", protocol |-> None, args |-> <<>>]
    /\ result = NoResult
    /\ calls = <<>>
    /\ held = None
    /\ v2 = V2Idle
    /\ v3 = V3Idle
    /\ self = NoStrategy
    /\ model = NoValue
    /\ abi = NoABI

NextTasks ==
    \/ EnsureContract
    \/ InitializeCompletes

SpecTasks == InitTasks /\ [][NextTasks]_vars

----------------------------------------------------------------------------
\* Properties of the aggregators (checked under Spec)

\* Operations that hand their protocol argument to one strategy whatever the
\* argument is, and operations that do so only when a protocol is given.
SingleStrategyOps ==
    {"get_market_data", "get_user_account_data", "supply", "withdraw", "borrow",
     "repay", "set_collateral_mode", "liquidate",
     "get_market", "get_outcome_token_price", "buy_outcome_tokens",
     "sell_outcome_tokens", "redeem_winnings", "get_buy_quote", "get_sell_quote"}

NamedStrategyOps ==
    {"quote_swap", "find_best_route", "get_reserves", "get_lending_positions",
     "get_borrowing_positions", "get_markets", "get_user_positions"}

ResolvesProtocol ==
    \/ op.name \in SingleStrategyOps
    \/ op.name \in NamedStrategyOps /\ op.protocol # None

\* Every strategy call of the operation went to strategy s, and there was one.
ResolvedTo(s) == calls # <<>> /\ \A i \in DOMAIN calls : calls[i].strategy = s

\* The aggregator itself raised e.
FailedWith(e) == ~result.ok /\ result.err = Some(e) /\ result.source = None

\* C1: in every operation that resolves its protocol argument to a single
\* strategy, a given name that is a registry key resolves to the strategy
\* stored under it, a given name that is not a key fails with 'Unsupported
\* protocol: <name>', no name on a non-empty registry resolves to the strategy
\* inserted first, and no name on an empty registry fails with 'No protocols
\* configured'.
C1_ResolutionOutcomes ==
    ResolvesProtocol =>
        /\ (op.protocol # None /\ op.protocol[1] \in Keys) => ResolvedTo(op.protocol[1])
        /\ (op.protocol # None /\ op.protocol[1] \notin Keys)
              => FailedWith(UnsupportedProtocol(op.protocol[1]))
        /\ (op.protocol = None /\ _protocol_strategies # <<>>)
              => ResolvedTo(_protocol_strategies[1])
        /\ (op.protocol = None /\ _protocol_strategies = <<>>)
              => FailedWith(NoProtocolsConfigured)

ResolutionFailures == {"Unsupported protocol", "No protocols configured"}

\* C2: whenever an operation fails with 'Unsupported protocol' or 'No protocols
\* configured', no strategy method was invoked during it; this covers buy and
\* sell without a price and the money-market calls that substitute defaults.
C2_ResolutionFailsBeforeAnyCall ==
    (~result.ok /\ result.err[1][1] \in ResolutionFailures) => calls = <<>>

\* C2 witness: a buy without max_price on an unregistered protocol has failed.
C2_Witness ==
    /\ op.name = "buy_outcome_tokens"
    /\ op.args[5] = None
    /\ _protocol_strategies # <<>>
    /\ result.err = Some(UnsupportedProtocol("Unknown"))

\* Every registered strategy was asked for a quote, in registration order,
\* and every one returned a route.
EveryStrategyQuoted ==
    /\ Len(calls) = Len(_protocol_strategies)
    /\ \A i \in DOMAIN calls :
         /\ calls[i].strategy = _protocol_strategies[i]
         /\ calls[i].method = "quote_swap"
         /\ calls[i].raised = None

\* C3: an exact-input quote with no protocol named, on a non-empty registry
\* whose strategies all return a route, returns the route with the greatest
\* output_amount, and among routes that share it the one of the strategy
\* registered earliest.
C3_BestOfN ==
    (/\ op.name = "quote_swap"
     /\ op.protocol = None
     /\ op.args[4] = EXACT_INPUT
     /\ _protocol_strategies # <<>>
     /\ EveryStrategyQuoted)
    => /\ result.ok
       /\ \E i \in DOMAIN calls :
            /\ result.val = calls[i].returned
            /\ result.source = Some(calls[i].strategy)
            /\ \A j \in DOMAIN calls :
                 /\ calls[j].returned[1].output_amount <= calls[i].returned[1].output_amount
                 /\ j < i => calls[j].returned[1].output_amount
                                < calls[i].returned[1].output_amount

\* C3 witness: two strategies quoted the same greatest output and the route of
\* the first one was returned.
C3_Witness ==
    /\ op.name = "quote_swap" /\ op.protocol = None /\ op.args[4] = EXACT_INPUT
    /\ Len(_protocol_strategies) = 2
    /\ EveryStrategyQuoted
    /\ calls[1].returned[1].output_amount = calls[2].returned[1].output_amount
    /\ calls[1].returned # calls[2].returned
    /\ result.val = calls[1].returned

\* C4: a quote with no protocol named fails with 'No valid route found'
\* whenever the registry is empty or no registered strategy returns a usable
\* quote, as when the strategies' quote calls raise.
C4_NoValidRoute ==
    (/\ op.name = "quote_swap"
     /\ op.protocol = None
     /\ \A i \in DOMAIN calls : calls[i].raised # None)
    => FailedWith(NoValidRouteFound)

\* The operation was dispatched to exactly one strategy: a named registered
\* protocol, or the first-registered one.
DispatchedToOne ==
    \/ /\ op.name \in SingleStrategyOps \cup NamedStrategyOps
       /\ Truthy(op.protocol) /\ op.protocol[1] \in Keys
    \/ /\ op.name \in SingleStrategyOps
       /\ ~Truthy(op.protocol) /\ _protocol_strategies # <<>>

DispatchTarget ==
    IF Truthy(op.protocol) THEN op.protocol[1] ELSE _protocol_strategies[1]

\* C5: when an operation is dispatched to exactly one strategy and that
\* strategy's call raises, the caller receives that same error, the method was
\* called exactly once, and no other strategy was called.
C5_SingleDispatchErrorUnchanged ==
    (DispatchedToOne /\ \E i \in DOMAIN calls : calls[i].raised # None)
    => /\ ~result.ok
       /\ result.err = calls[Len(calls)].raised
       /\ result.source = Some(DispatchTarget)
       /\ \A i \in DOMAIN calls :
            /\ calls[i].strategy = DispatchTarget
            /\ calls[i].raised # None => i = Len(calls)
            /\ \A j \in DOMAIN calls : calls[j].method = calls[i].method => j = i

\* C5 witness: a supply with no protocol named on a registry of two strategies
\* has failed with the error the first strategy's builder raised.
C5_Witness ==
    /\ op.name = "supply" /\ op.protocol = None
    /\ Len(_protocol_strategies) = 2
    /\ Len(calls) = 1
    /\ calls[1].strategy = _protocol_strategies[1]
    /\ calls[1].raised = Some(<<"TimeoutError", "rpc">>)
    /\ result.err = Some(<<"TimeoutError", "rpc">>)

\* C6: get_reserves with no protocol named reads the strategies in
\* registration order, skips each one whose read raises, returns the reserves
\* of the first that succeeds without calling a later one, and fails with 'No
\* reserves found for pair' only after every strategy was tried and failed, or
\* on an empty registry.
C6_ReservesFirstSuccess ==
    (op.name = "get_reserves" /\ op.protocol = None)
    => /\ Len(calls) <= Len(_protocol_strategies)
       /\ \A i \in DOMAIN calls :
            /\ calls[i].strategy = _protocol_strategies[i]
            /\ calls[i].method = "get_reserves"
            /\ i < Len(calls) => calls[i].raised # None
       /\ result.ok =>
            /\ calls # <<>>
            /\ calls[Len(calls)].raised = None
            /\ result.val = calls[Len(calls)].returned
            /\ result.source = Some(calls[Len(calls)].strategy)
       /\ ~result.ok =>
            /\ FailedWith(NoReservesFound)
            /\ Len(calls) = Len(_protocol_strategies)
            /\ \A i \in DOMAIN calls : calls[i].raised # None

\* C6 witness: the first strategy's read raised and the reserves of the second
\* were returned.
C6_Witness ==
    /\ op.name = "get_reserves" /\ op.protocol = None
    /\ Len(calls) = 2
    /\ calls[1].raised # None
    /\ result.ok /\ result.source = Some(_protocol_strategies[2])

\* C7: update_quote(route) re-issues one quote request with the route's input
\* asset, output asset and mode, and with its input_amount as amount when the
\* mode is exact-input and its output_amount when it is exact-output; it
\* returns a route a strategy has newly built and leaves the given route as
\* it was.
C7_UpdateQuoteReissues ==
    op.name = "update_quote"
    => LET quote == op.args[1]
           amount == IF quote.mode = EXACT_INPUT THEN quote.input_amount
                                                 ELSE quote.output_amount
       IN /\ held = Some(quote)
          /\ _protocol_strategies # <<>> => calls # <<>>
          /\ \A i \in DOMAIN calls :
               /\ calls[i].strategy = _protocol_strategies[i]
               /\ calls[i].method = "quote_swap"
               /\ calls[i].args = <<quote.input_asset, quote.output_asset, amount, quote.mode>>
          /\ result.ok => \E i \in DOMAIN calls : result.val = calls[i].returned

\* C7 witness: an exact-output route whose two amounts differ was updated and
\* a route with another output amount came back.
C7_Witness ==
    /\ op.name = "update_quote"
    /\ op.args[1].mode = EXACT_OUTPUT
    /\ op.args[1].input_amount # op.args[1].output_amount
    /\ result.ok
    /\ result.val[1].input_amount # op.args[1].input_amount

----------------------------------------------------------------------------
\* Properties of the Uniswap V2 strategy (checked under SpecV2)

PositiveReserves == v2.reserve_in > 0 /\ v2.reserve_out > 0

\* C8 as stated: for positive integer reserves and a positive integer
\* amountIn, with amountOut = getAmountOut(amountIn) and amountIn' =
\* getAmountIn(amountOut), amountIn' >= amountIn.
C8_RoundTripNeverBelow ==
    (v2.step = "out_in" /\ PositiveReserves)
    => /\ v2.second.raised = None
       /\ v2.second.value[1] >= v2.amount

\* C8: for positive integer reserves and a positive integer amountIn, with
\* amountOut = getAmountOut(amountIn) and amountIn' = getAmountIn(amountOut),
\* amountIn' is at most amountIn + 1 and is itself enough to obtain amountOut:
\* getAmountOut(amountIn') >= amountOut.
C8_RoundTripBound ==
    (v2.step = "out_in" /\ PositiveReserves)
    => /\ v2.first.raised = None
       /\ v2.second.raised = None
       /\ v2.second.value[1] <= v2.amount + 1
       /\ call_get_amount_out(v2.second.value[1], Decimal(v2.reserve_in),
                              Decimal(v2.reserve_out)).value[1]
             >= v2.first.value[1]

\* C8 witness: a positive output was quoted for the input and the input
\* recomputed from it is smaller than the original.
C8_Witness ==
    /\ v2.step = "out_in" /\ PositiveReserves
    /\ v2.first.value[1] > 0
    /\ v2.second.raised = None
    /\ v2.second.value[1] < v2.amount

\* C9: for positive integer reserves and 0 < amountOut < Rout, the exact-output
\* result amountIn = floor(Rin*amountOut*1000 / ((Rout-amountOut)*997)) + 1 is
\* enough to obtain the quoted output: getAmountOut(amountIn) >= amountOut.
C9_ExactOutputSufficient ==
    (/\ v2.step = "in_out" /\ PositiveReserves
     /\ 0 < v2.amount /\ v2.amount < v2.reserve_out)
    => /\ v2.first.raised = None
       /\ v2.first.value[1]
             = ((v2.reserve_in * v2.amount * 1000)
                   \div ((v2.reserve_out - v2.amount) * 997)) + 1
       /\ v2.second.raised = None
       /\ v2.second.value[1] >= v2.amount

\* C9 witness: an output of more than one unit below the output reserve was
\* priced and the input found for it buys exactly that output.
C9_Witness ==
    /\ v2.step = "in_out" /\ PositiveReserves
    /\ 1 < v2.amount /\ v2.amount < v2.reserve_out
    /\ v2.second.raised = None
    /\ v2.second.value[1] = v2.amount

\* C10: in the V2 quote the formulas are evaluated with the amount and both
\* reserves in raw integer units: the amount is the caller's converted with
\* the decimals of its own asset, the reserves are the pair's raw reserves of
\* the input and of the output asset; and the amount placed in the route is
\* the formula's result converted with the decimals of its own asset.
C10_FormulaInRawUnits ==
    (v2.step = "quoted" /\ v2.quote.formula # None)
    => LET q == v2.quote
           given_exact_input == q.mode = EXACT_INPUT
       IN /\ q.formula[1].amount
                = to_raw(v2.amount, IF given_exact_input THEN q.decimals_in
                                                          ELSE q.decimals_out)
          /\ q.formula[1].reserve_in = v2.reserve_in
          /\ q.formula[1].reserve_out = v2.reserve_out
          /\ (q.outcome.value # None /\ given_exact_input)
                => q.outcome.value[1].output_amount
                      = to_decimal(_get_amount_out(q.formula[1].amount,
                                                   Decimal(q.formula[1].reserve_in),
                                                   Decimal(q.formula[1].reserve_out)),
                                   q.decimals_out)
          /\ (q.outcome.value # None /\ ~given_exact_input)
                => q.outcome.value[1].input_amount
                      = to_decimal(_get_amount_in(q.formula[1].amount,
                                                  Decimal(q.formula[1].reserve_in),
                                                  Decimal(q.formula[1].reserve_out)),
                                   q.decimals_in)

----------------------------------------------------------------------------
\* Properties of the Uniswap V3 strategy (checked under SpecV3)

\* The positions of the fee tiers whose pool exists and whose quote call
\* succeeded, and the amount each of them quoted.
QuotedTiers == {i \in DOMAIN v3.answers : TierQuoted(v3.answers[i])}

TierAmount(i) == to_decimal(v3.answers[i].quote[1], v3.decimals)

\* Tier i is the best of the quoted tiers and the earliest of the best.
BestTier(i) ==
    /\ i \in QuotedTiers
    /\ \A j \in QuotedTiers :
         IF v3.mode = EXACT_INPUT
         THEN TierAmount(j) <= TierAmount(i) /\ (j < i => TierAmount(j) < TierAmount(i))
         ELSE TierAmount(j) >= TierAmount(i) /\ (j < i => TierAmount(j) > TierAmount(i))

\* C11: over the fee tiers, in list order, whose pool exists and whose quote
\* call succeeds, the V3 quote returns a route built from the best tier's
\* quote and tagged with that tier: the highest output for exact-input, the
\* lowest input for exact-output, the earliest tier among equal bests.
C11_BestFeeTier ==
    (v3.step = "quoted" /\ QuotedTiers # {})
    => \E i \in QuotedTiers :
         /\ BestTier(i)
         /\ TierAmount(i) > 0 => v3.outcome.value # None
         /\ v3.outcome.value # None =>
              LET route == v3.outcome.value[1]
              IN /\ route.protocol = <<"uniswap_v3", fee_tiers[i]>>
                 /\ route.taxes = fee_tiers[i]
                 /\ route.mode = v3.mode
                 /\ IF v3.mode = EXACT_INPUT
                    THEN route.input_amount = v3.amount /\ route.output_amount = TierAmount(i)
                    ELSE route.output_amount = v3.amount /\ route.input_amount = TierAmount(i)

\* C11 witness: an exact-output quote where the first tier has no pool, the
\* second and the fourth quote the same lowest input and the third a higher
\* one; the route carries the second tier's tag.
C11_Witness ==
    /\ v3.step = "quoted" /\ v3.mode = EXACT_OUTPUT
    /\ QuotedTiers = {2, 3, 4}
    /\ TierAmount(2) = TierAmount(4) /\ TierAmount(3) > TierAmount(2)
    /\ v3.outcome.value # None
    /\ v3.outcome.value[1].protocol = <<"uniswap_v3", fee_tiers[2]>>

----------------------------------------------------------------------------
\* Further properties of the aggregators (checked under Spec)

\* What the strategies answered during the last operation, by position in the
\* registry; `unasked` stands for the answer of a strategy that was not called.
ObservedResponses(unasked) ==
    [i \in Positions |->
        IF \E c \in DOMAIN calls : calls[c].strategy = _protocol_strategies[i]
        THEN LET c == CHOOSE c \in DOMAIN calls : calls[c].strategy = _protocol_strategies[i]
             IN [raised |-> calls[c].raised, value |-> calls[c].returned]
        ELSE unasked]

\* C12: find_best_route(input, output, amount, mode, max_hops, protocol)
\* returns, or fails with, exactly what quote_swap(input, output, amount, mode,
\* protocol) returns or fails with on the same strategies, whatever max_hops.
C12_FindBestRouteIsQuote ==
    op.name = "find_best_route"
    => \A unasked \in Outcomes({}) :
         LET quote == DecentralizedExchange_quote_swap(
                          op.args[1], op.args[2], op.args[3], op.args[4], op.protocol,
                          ObservedResponses(unasked))
         IN /\ quote.result = result
            /\ quote.calls = calls

\* C12 witness: find_best_route with max_hops = 1 and a registered protocol
\* named, on a registry of two strategies, has returned that strategy's route.
C12_Witness ==
    /\ op.name = "find_best_route"
    /\ op.args[5] = 1
    /\ Len(_protocol_strategies) = 2
    /\ op.protocol = Some(_protocol_strategies[2])
    /\ result.ok
    /\ result.source = Some(_protocol_strategies[2])

UnionReads ==
    {"get_lending_positions", "get_borrowing_positions", "get_markets", "get_user_positions"}

\* The lists the first n calls of the log returned, joined in call order.
RECURSIVE JoinedReturns(_)
JoinedReturns(n) ==
    IF n = 0 THEN <<>> ELSE JoinedReturns(n - 1) \o calls[n].returned[1]

RECURSIVE SumOfReturnLengths(_)
SumOfReturnLengths(n) ==
    IF n = 0 THEN 0 ELSE SumOfReturnLengths(n - 1) + Len(calls[n].returned[1])

C14_DefaultSlippageLimit ==
    (/\ op.name \in {"buy_outcome_tokens", "sell_outcome_tokens"}
     /\ op.args[5] = None
     /\ \E i \in DOMAIN calls : calls[i].method \in {"build_buy_transaction",
                                                     "build_sell_transaction"})
    => /\ Len(calls) = 2
       /\ calls[1].method = "get_outcome_token_price"
       /\ calls[1].args = <<op.args[1], op.args[2]>>
       /\ calls[1].raised = None
       /\ calls[2].strategy = calls[1].strategy
       /\ calls[2].strategy = DispatchTarget
       /\ LET p == calls[1].returned[1]
              tolerance == configuration.default_slippage_tolerance
          IN IF op.name = "buy_outcome_tokens"
             THEN /\ calls[2].method = "build_buy_transaction"
                  /\ calls[2].args[4] = p * (100 + tolerance)
             ELSE /\ calls[2].method = "build_sell_transaction"
                  /\ calls[2].args[4] = p * (100 - tolerance)

\* C14 witness: a buy without max_price on the second of two strategies read
\* the price 0.60 there and, with 1% tolerance, built with max_price 0.606.
C14_Witness ==
    /\ op.name = "buy_outcome_tokens" /\ op.args[5] = None
    /\ Len(_protocol_strategies) = 2
    /\ op.protocol = Some(_protocol_strategies[2])
    /\ configuration.default_slippage_tolerance = 1
    /\ Len(calls) = 2
    /\ calls[1].strategy = _protocol_strategies[2]
    /\ calls[1].returned = Some(60)
    /\ calls[2].strategy = _protocol_strategies[2]
    /\ calls[2].args[4] = 6060
    /\ result.ok

----------------------------------------------------------------------------
\* Properties of the registry

\* C17: once the aggregator is constructed, no public operation, successful
\* or failing, adds, removes, replaces or reorders an entry of its
\* protocol-name -> strategy map: supported_protocols returns the same names
\* in the same order at every later point.
C17_RegistryReadOnly == [][_protocol_strategies' = _protocol_strategies]_vars

\* C17 witness: an aggregator with two strategies has answered a quote the
\* caller kept, and then failed an operation that named a protocol it does
\* not have.
C17_Witness ==
    /\ Len(_protocol_strategies) = 2
    /\ held # None
    /\ op.name # "__init__"
    /\ Truthy(op.protocol)
    /\ op.protocol[1] \notin Keys
    /\ ~result.ok

----------------------------------------------------------------------------
\* Properties of the strategy objects

Builders == {"build_swap_transaction", "build_buy_transaction", "build_sell_transaction", "build_redeem_transaction"}

SigningSteps == {"wallet.sign_and_send_transaction"}

SignedOrBroadcastStates == {"SIGNED", "BROADCASTED"}

InvokedSteps == {self.invoked[i] : i \in 1..Len(self.invoked)}

\* C15: every build*Transaction operation of every strategy returns an
\* unsigned transaction: the operation invokes no signing or sending step,
\* and the transaction it returns is not in a signed or broadcast state.
C15_BuildReturnsUnsigned ==
    self.method \in Builders =>
        /\ InvokedSteps \cap SigningSteps = {}
        /\ self.outcome.value # None =>
               \A s \in SignedOrBroadcastStates :
                   self.outcome.value[1].current_state # Some(s)

Reads == {"quote_swap", "get_reserves", "get_market", "get_outcome_token_price"}

----------------------------------------------------------------------------
\* Properties of the model values

\* A value as its constructor (or model_validate) left it.
AsConstructed == Constructed /\ model.origin # "assignment"

\* C18: every successfully constructed SwapHop has input_amount > 0 and
\* output_amount > 0: construction with a zero or a negative amount on
\* either side fails.
C18_SwapHopAmountsPositive ==
    (AsConstructed /\ model.type = "SwapHop") =>
        /\ model.fields.input_amount > 0
        /\ model.fields.output_amount > 0

\* The invariants the validators of a class check, on the fields f.
CheckedInvariants(type, f) ==
    CASE type = "SwapHop" ->
            /\ f.input_asset # f.output_asset
            /\ f.input_amount # 0 /\ f.output_amount # 0
            /\ f.are_amounts_raw => (f.input_amount % Scale = 0 /\ f.output_amount % Scale = 0)
      [] type = "OutcomeToken" ->
            f.probability >= 0 /\ f.probability <= Scale
      [] type = "UserAccountData" -> TRUE
      [] OTHER ->
            /\ f.status = RESOLVED => f.resolved_outcome_id \notin {None, Some("")}
            /\ f.end_date # None => f.end_date[1] >= f.creation_date

C20_MarketConsistency ==
    (AsConstructed /\ model.type = "BettingMarket") =>
        /\ model.fields.status = RESOLVED =>
               (model.fields.resolved_outcome_id # None /\ model.fields.resolved_outcome_id[1] # "")
        /\ model.fields.end_date # None =>
               model.fields.end_date[1] >= model.fields.creation_date

\* C20 witness: a RESOLVED market with an outcome id and an end date equal
\* to its creation date was constructed.
C20_Witness ==
    /\ model.type = "BettingMarket"
    /\ model.origin = "constructor"
    /\ model.error = None
    /\ model.fields.status = RESOLVED
    /\ model.fields.resolved_outcome_id = Some("outcome_1")
    /\ model.fields.end_date = Some(model.fields.creation_date)

RiskLevelRead == Constructed /\ model.type = "UserAccountData" /\ model.fields.risk_level # None

\* C21: liquidation_risk_level maps every health factor to exactly one band
\* by strict thresholds: LOW when it is > 2.0, MEDIUM when > 1.5 and <= 2.0,
\* HIGH when > 1.1 and <= 1.5, CRITICAL when <= 1.1.
C21_RiskBands ==
    RiskLevelRead =>
        LET h == model.fields.health_factor
            level == model.fields.risk_level[1]
        IN /\ level = "LOW" <=> h > 200
           /\ level = "MEDIUM" <=> (h > 150 /\ h <= 200)
           /\ level = "HIGH" <=> (h > 110 /\ h <= 150)
           /\ level = "CRITICAL" <=> h <= 110

\* C21 witness: a health factor of exactly 2.0 was read as MEDIUM.
C21_Witness ==
    /\ RiskLevelRead
    /\ model.fields.health_factor = 200
    /\ model.fields.risk_level = Some("MEDIUM")

----------------------------------------------------------------------------
\* Properties of the Polymarket strategy

\* C22: no operation swallows an error into a default value; in particular
\* an operation that returns a price never returns a default when the
\* upstream call failed or the upstream response lacks the data the price
\* is taken from: a returned price is the price the response carries.
C22_NoDefaultPrice ==
    (self.method = "get_outcome_token_price" /\ self.outcome.value # None) =>
        /\ self.response # None
        /\ self.response[1].prices # None
        /\ self.outcome.value[1].amount = self.response[1].prices[1]

\* C30: a Polymarket strategy never issues an API request on an HTTP
\* session it has already closed: after close(), the next API request is
\* made on a newly created open session.
C30_NoRequestOnClosedSession ==
    "session.get" \in InvokedSteps => "_session" \notin self.closed

----------------------------------------------------------------------------
\* Properties of the ABI sources

ABIDone == abi.step = "done"

\* The inputs on which the source has no interface description to give.
ABIFailure ==
    \/ abi.file \in {"missing", "malformed", "scalar"}
    \/ abi.call # "EthereumLocalFileABI.get_abi" /\
           \/ ~abi.valid_address
           \/ abi.metadata \in {"http_error", "transport_error"}
           \/ abi.metadata # "proxy_inline" /\ abi.answer # "abi"

RaisedKind == abi.outcome.raised[1][1]

C24_SessionClosedOnce ==
    (ABIDone /\ abi.call # "EthereumLocalFileABI.get_abi") =>
        /\ abi.session.created => abi.session.closes = 1
        /\ abi.session.supplied => (~abi.session.created /\ abi.session.closes = 0)
        /\ (abi.valid_address /\ ~abi.session.supplied) => abi.session.created

\* C24 witness: fetch_contract_abi created its session, returned the inline
\* ABI of a proxy early and had closed the session once.
C24_Witness ==
    /\ ABIDone
    /\ abi.call = "EtherscanExplorer.fetch_contract_abi"
    /\ abi.metadata = "proxy_inline"
    /\ abi.session.created /\ abi.session.closes = 1
    /\ abi.outcome.value = Some("abi")
    /\ Len(abi.requests) = 1

----------------------------------------------------------------------------
\* Properties of the quote-to-transaction pipeline

\* C25: an exact-output quote with no protocol named, on a registry where
\* every strategy returns a route for the requested output amount, returns
\* the route with the lowest input_amount among the strategies' routes.
C25_ExactOutputLowestInput ==
    (/\ op.name = "quote_swap"
     /\ op.protocol = None
     /\ op.args[4] = EXACT_OUTPUT
     /\ _protocol_strategies # <<>>
     /\ EveryStrategyQuoted
     /\ \A i \in DOMAIN calls : calls[i].returned[1].output_amount = op.args[3])
    => /\ result.ok
       /\ \A i \in DOMAIN calls :
            result.val[1].input_amount <= calls[i].returned[1].input_amount

\* The registered strategy whose quote writes `protocol` into its routes.
Producers(protocol) == {s \in Keys : protocol \in RouteProtocols(s)}

\* C26: every route returned by the aggregator's quote can be handed to its
\* execute_swap: it is not rejected as 'Unsupported protocol', the build is
\* dispatched to the strategy that produced the route, and that strategy
\* receives the recipient argument as its recipient.
C26_QuotedRouteExecutes ==
    op.name = "execute_swap" =>
        /\ ~(result.err # None /\ result.err[1][1] = "Unsupported protocol")
        /\ Len(calls) = 1
        /\ calls[1].strategy \in Producers(op.args[1].protocol)
        /\ build_swap_transaction_parameters(calls[1].args).recipient = op.args[2]

----------------------------------------------------------------------------
\* Properties of the Uniswap V2 exact-output quote

ExactOutputQuoted == v2.step = "quoted" /\ v2.quote.mode = EXACT_OUTPUT /\ v2.quote.pair # None

\* C27: a route returned by the Uniswap V2 quote for an exact-output request
\* has output_amount equal to the amount the caller requested and
\* input_amount equal to the input the exact-output formula computed,
\* converted to decimal units of the input asset.
C27_ExactOutputRoute ==
    (ExactOutputQuoted /\ v2.quote.outcome.value # None)
    => LET q == v2.quote
       IN /\ q.outcome.value[1].output_amount = v2.amount
          /\ q.outcome.value[1].input_amount
                = to_decimal(_get_amount_in(q.formula[1].amount,
                                            Decimal(q.formula[1].reserve_in),
                                            Decimal(q.formula[1].reserve_out)),
                             q.decimals_in)

\* C28: an exact-output Uniswap V2 quote for an amount greater than or
\* equal to the pair's output reserve fails with a ValueError: it returns
\* no route (so none with a zero or negative input amount) and does not
\* fail with a division-by-zero error.
C28_ExactOutputBeyondReserve ==
    (ExactOutputQuoted /\ to_raw(v2.amount, v2.quote.decimals_out) >= v2.reserve_out)
    => /\ v2.quote.outcome.raised # None
       /\ v2.quote.outcome.raised[1][1] = "ValueError"

----------------------------------------------------------------------------
\* Properties of concurrent calls

====
